---- MODULE Spec2Model ----
(***************************************************************************)
(* A model of the gossyp tool/environment substrate and of the script      *)
(* evaluator's tool invocation: function-built tools, typed views, the     *)
(* dynamic environment with its synthesised meta-tools, the combined       *)
(* (layered) environment and call_tool.                                    *)
(***************************************************************************)
EXTENDS Integers, Sequences, FiniteSets, TLC

VARIABLES
    heap,           \* the interior of every dynamic environment, by Arc
    undefinedOnce,  \* history: meta-tool names undefine was executed for
    last,           \* history: the most recent operation and what it returned
    children,       \* the child environments of the combined environment
    held,           \* a tool handle obtained earlier and kept by the caller
    stateful,       \* the stateful evaluator: binding table and activation record
    threads,        \* the callers of the stateful evaluator and where each one is
    scopes,         \* the binding environment a binder holds: scopes, tables, combinations
    mutexes         \* the thread that holds each mutex of the stateful evaluator

vars == <<heap, undefinedOnce, last, children, held, stateful, threads, scopes, mutexes>>

(***************************************************************************)
(* Bounds                                                                  *)
(***************************************************************************)
\* number of distinct function-built user tools (x+1, x+2, ...)
NumTools == 2

\* integers handed to tools as typed inputs range over 0..MaxInt
MaxInt == 2

(***************************************************************************)
(* Tool names                                                              *)
(***************************************************************************)
LIST_TOOLS == "list-tools"

DEFINE_TOOL == "define-tool"

UNDEFINE_TOOL == "undefine-tool"

MetaNames == {LIST_TOOLS, DEFINE_TOOL, UNDEFINE_TOOL}

\* The names used by the model, in the byte-wise order of Rust's String Ord
NameOrder == <<"call_one", "define-tool", "list-tools", "make_tool", "new-tool",
               "one", "subtool", "test", "tool", "undefine-tool">>

Rank(n) == CHOOSE i \in 1..Len(NameOrder) : NameOrder[i] = n

NameLess(a, b) == Rank(a) < Rank(b)

(***************************************************************************)
(* JSON values and results                                                 *)
(***************************************************************************)
JNull == [j |-> "Null"]

JBool(b) == [j |-> "Bool", b |-> b]

JNum(n) == [j |-> "Number", n |-> n]

JStr(s) == [j |-> "String", s |-> s]

JError(e) == [j |-> "Object", error |-> e]

JNames(names) == [j |-> "Object", names |-> names]

JDefineToolInput(s, t) == [j |-> "Object", source_name |-> s, target_name |-> t]

JUndefineToolInput(n) == [j |-> "Object", name |-> n]

Ok(v) == [ok |-> TRUE, val |-> v]

Err(v) == [ok |-> FALSE, val |-> v]

\* Option<T>: None is the empty sequence, Some(x) the one-element sequence
None == <<>>

Some(x) == <<x>>

unwrap_or(o, d) == IF o = None THEN d ELSE o[1]

(***************************************************************************)
(* Typed (Rust) values and their serde conversions                         *)
(***************************************************************************)
TUnit == [ty |-> "unit"]

TI32(n) == [ty |-> "i32", n |-> n]

TBool(b) == [ty |-> "bool", b |-> b]

TListToolsResult(names) == [ty |-> "ListToolsResult", names |-> names]

TValue(v) == [ty |-> "Value", val |-> v]

\* a value whose Serialize implementation fails
TUnencodable == [ty |-> "unencodable"]

to_value(x) ==
    CASE x.ty = "unit"            -> Ok(JNull)
      [] x.ty = "i32"             -> Ok(JNum(x.n))
      [] x.ty = "bool"            -> Ok(JBool(x.b))
      [] x.ty = "ListToolsResult" -> Ok(JNames(x.names))
      [] x.ty = "Value"           -> Ok(x.val)
      [] x.ty = "DefineToolInput" -> Ok(JDefineToolInput(x.source_name, x.target_name))
      [] x.ty = "UndefineToolInput" -> Ok(JUndefineToolInput(x.name))
      [] OTHER                    -> Err(JError("serialize failed"))

from_value(ty, v) ==
    CASE ty = "unit" /\ v.j = "Null"     -> Ok(TUnit)
      [] ty = "i32" /\ v.j = "Number"    -> Ok(TI32(v.n))
      [] ty = "bool" /\ v.j = "Bool"     -> Ok(TBool(v.b))
      [] ty = "ListToolsResult" /\ v.j = "Object" /\ "names" \in DOMAIN v
                                         -> Ok(TListToolsResult(v.names))
      [] ty = "DefineToolInput" /\ v.j = "Object" /\ "source_name" \in DOMAIN v
                                         -> Ok([ty |-> "DefineToolInput",
                                                source_name |-> v.source_name,
                                                target_name |-> v.target_name])
      [] ty = "UndefineToolInput" /\ v.j = "Object" /\ "name" \in DOMAIN v
                                         -> Ok([ty |-> "UndefineToolInput", name |-> v.name])
      [] ty = "Value"                    -> Ok(TValue(v))
      [] OTHER                           -> Err(JError("deserialize failed"))

(***************************************************************************)
(* Function-built tools                                                    *)
(***************************************************************************)
\* FnTool::invoke_json once the input has been decoded and the function has
\* returned `result` (a Result of typed values)
FnTool_encode_result(result) ==
    LET encoded == to_value(result.val)
    IN  IF result.ok
        THEN IF encoded.ok THEN Ok(encoded.val) ELSE Err(JError("JSON encode failed"))
        ELSE IF encoded.ok THEN Ok(encoded.val) ELSE Err(JError("Error encode failed"))

FnTool_input_error == Err(JError("JSON input decode failed"))

\* FnTool::invoke_json: `decoded` is from_value::<TIn>(input) and `result` what
\* the function returns for the decoded input
FnTool_invoke_json(decoded, result) ==
    IF decoded.ok THEN FnTool_encode_result(result) ELSE FnTool_input_error

(***************************************************************************)
(* Tools and environments                                                  *)
(***************************************************************************)
\* a tool made by make_pure_tool(|x: i32| x + id)
FnTool(id) == [kind |-> "fn", id |-> id, target |-> "-"]

UserTools == {FnTool(id) : id \in 1..NumTools}

\* a synthesised meta-tool: the closure owns a clone of the dynamic environment
MetaTool(name, arc) == [kind |-> name, id |-> 0, target |-> arc]

DynamicEnvironment(arc) == [type |-> "dynamic", arc |-> arc]

\* #[derive(Clone)] on DynamicEnvironment copies the Arc, not the map
clone(env) == env

StaticEnvironment(tools) == [type |-> "static", tools |-> tools]

EmptyEnvironment == [type |-> "empty"]

ToolFound(t) == [ok |-> TRUE, tool |-> t]

not_found == [ok |-> FALSE, msg |-> "Tool not found"]

\* HashMap::new
EmptyMap == [x \in {} |-> x]

DynamicToolMap_new ==
    [tools |-> EmptyMap, undefined_list |-> FALSE,
     undefined_define |-> FALSE, undefined_undefine |-> FALSE]

\* HashMap::insert
Insert(m, k, v) == [x \in DOMAIN m \cup {k} |-> IF x = k THEN v ELSE m[x]]

\* HashMap::remove
Remove(m, k) == [x \in DOMAIN m \ {k} |-> m[x]]

\* mutant: an existing definition is kept instead of replaced
define_keep_existing(h, arc, name, tool) ==
    IF name \in DOMAIN h[arc].tools THEN h
    ELSE [h EXCEPT ![arc].tools = Insert(@, name, tool)]

define(h, arc, name, tool) ==
    [h EXCEPT ![arc].tools = Insert(@, name, tool)]

\* mutant: the synthesis of the built-in tools is never switched off
undefine_map_only(h, arc, name) ==
    LET map        == h[arc]
        last_value == name \in DOMAIN map.tools
        removed    == CASE name = DEFINE_TOOL   -> last_value \/ ~map.undefined_define
                        [] name = UNDEFINE_TOOL -> last_value \/ ~map.undefined_undefine
                        [] name = LIST_TOOLS    -> last_value \/ ~map.undefined_list
                        [] OTHER                -> last_value
    IN  [heap |-> [h EXCEPT ![arc].tools = Remove(@, name)], removed |-> removed]

\* mutant: the built-in tool is flagged as undefined only when the name had no
\* entry in the map
undefine_flag_if_absent(h, arc, name) ==
    LET map        == h[arc]
        last_value == name \in DOMAIN map.tools
        removed    == CASE name = DEFINE_TOOL   -> last_value \/ ~map.undefined_define
                        [] name = UNDEFINE_TOOL -> last_value \/ ~map.undefined_undefine
                        [] name = LIST_TOOLS    -> last_value \/ ~map.undefined_list
                        [] OTHER                -> last_value
        newmap     == [tools              |-> Remove(map.tools, name),
                       undefined_list     |-> map.undefined_list
                                                \/ (name = LIST_TOOLS /\ ~last_value),
                       undefined_define   |-> map.undefined_define
                                                \/ (name = DEFINE_TOOL /\ ~last_value),
                       undefined_undefine |-> map.undefined_undefine
                                                \/ (name = UNDEFINE_TOOL /\ ~last_value)]
    IN  [heap |-> [h EXCEPT ![arc] = newmap], removed |-> removed]

undefine(h, arc, name) ==
    LET map        == h[arc]
        last_value == name \in DOMAIN map.tools
        removed    == CASE name = DEFINE_TOOL   -> last_value \/ ~map.undefined_define
                        [] name = UNDEFINE_TOOL -> last_value \/ ~map.undefined_undefine
                        [] name = LIST_TOOLS    -> last_value \/ ~map.undefined_list
                        [] OTHER                -> last_value
        newmap     == [tools              |-> Remove(map.tools, name),
                       undefined_list     |-> map.undefined_list \/ name = LIST_TOOLS,
                       undefined_define   |-> map.undefined_define \/ name = DEFINE_TOOL,
                       undefined_undefine |-> map.undefined_undefine \/ name = UNDEFINE_TOOL]
    IN  [heap |-> [h EXCEPT ![arc] = newmap], removed |-> removed]

DynamicEnvironment_get_json_tool(h, arc, name) ==
    LET map == h[arc]
    IN  IF name \in DOMAIN map.tools THEN ToolFound(map.tools[name])
        ELSE CASE name = DEFINE_TOOL ->
                    IF ~map.undefined_define
                    THEN ToolFound(MetaTool(DEFINE_TOOL, clone(DynamicEnvironment(arc)).arc))
                    ELSE not_found
               [] name = LIST_TOOLS ->
                    IF ~map.undefined_list
                    THEN ToolFound(MetaTool(LIST_TOOLS, clone(DynamicEnvironment(arc)).arc))
                    ELSE not_found
               [] name = UNDEFINE_TOOL ->
                    IF ~map.undefined_undefine
                    THEN ToolFound(MetaTool(UNDEFINE_TOOL, clone(DynamicEnvironment(arc)).arc))
                    ELSE not_found
               [] OTHER -> not_found

StaticEnvironment_get_json_tool(env, name) ==
    IF name \in DOMAIN env.tools THEN ToolFound(env.tools[name]) ELSE not_found

\* Environment::get_json_tool for the leaf environments
get_json_tool(h, env, name) ==
    CASE env.type = "dynamic" -> DynamicEnvironment_get_json_tool(h, env.arc, name)
      [] env.type = "static"  -> StaticEnvironment_get_json_tool(env, name)
      [] OTHER                -> not_found

\* mutant: the source tool is looked up in the dynamic environment itself
define_tool_from_target(h, arc, source_name, target_name, source_environment) ==
    LET source_tool == get_json_tool(h, DynamicEnvironment(arc), source_name)
    IN  IF source_tool.ok
        THEN [heap |-> define(h, arc, target_name, source_tool.tool), result |-> Ok(TUnit)]
        ELSE [heap |-> h, result |-> Err(TValue(JError("Could not find source tool")))]

define_tool(h, arc, source_name, target_name, source_environment) ==
    LET source_tool == get_json_tool(h, source_environment, source_name)
    IN  IF source_tool.ok
        THEN [heap |-> define(h, arc, target_name, source_tool.tool), result |-> Ok(TUnit)]
        ELSE [heap |-> h, result |-> Err(TValue(JError("Could not find source tool")))]

(***************************************************************************)
(* Sorting and de-duplication of name lists                                *)
(***************************************************************************)
RECURSIVE InsertSorted(_, _)
InsertSorted(s, x) ==
    IF s = <<>> THEN <<x>>
    ELSE IF NameLess(x, Head(s)) THEN <<x>> \o s
    ELSE <<Head(s)>> \o InsertSorted(Tail(s), x)

\* Vec::sort
RECURSIVE sort(_)
sort(s) == IF s = <<>> THEN <<>> ELSE InsertSorted(sort(Tail(s)), Head(s))

\* Vec::dedup: removes consecutive repeated elements
RECURSIVE dedup(_)
dedup(s) ==
    IF Len(s) <= 1 THEN s
    ELSE IF s[1] = s[2] THEN dedup(Tail(s))
    ELSE <<s[1]>> \o dedup(Tail(s))

\* the orders in which a HashMap may enumerate its keys
RECURSIVE KeyOrders(_)
KeyOrders(S) ==
    IF S = {} THEN {<<>>}
    ELSE UNION {{<<x>> \o p : p \in KeyOrders(S \ {x})} : x \in S}

\* mutant: duplicates are removed without sorting first
list_tools_unsorted(h, arc, keys) ==
    LET map == h[arc]
        n1  == keys
        n2  == IF ~map.undefined_define THEN Append(n1, DEFINE_TOOL) ELSE n1
        n3  == IF ~map.undefined_undefine THEN Append(n2, UNDEFINE_TOOL) ELSE n2
        n4  == IF ~map.undefined_list THEN Append(n3, LIST_TOOLS) ELSE n3
    IN  dedup(n4)

\* `keys` is the order in which the HashMap enumerates its keys
\* mutant: the built-in names are listed whether they were undefined or not
list_tools_with_every_builtin(h, arc, keys) ==
    dedup(sort(keys \o <<DEFINE_TOOL, UNDEFINE_TOOL, LIST_TOOLS>>))

list_tools(h, arc, keys) ==
    LET map == h[arc]
        n1  == keys
        n2  == IF ~map.undefined_define THEN Append(n1, DEFINE_TOOL) ELSE n1
        n3  == IF ~map.undefined_undefine THEN Append(n2, UNDEFINE_TOOL) ELSE n2
        n4  == IF ~map.undefined_list THEN Append(n3, LIST_TOOLS) ELSE n3
    IN  dedup(sort(n4))

(***************************************************************************)
(* The synthesised meta-tools: function-built tools whose closure owns a   *)
(* clone of the dynamic environment (`target`).  Each operator yields the   *)
(* heap after the call and the JSON result.                                 *)
(***************************************************************************)
\* mutant: the handle stops working once define-tool has been undefined
define_tool_invoke_json_while_defined(h, target, input, source_environment) ==
    LET decoded == from_value("DefineToolInput", input)
        r       == define_tool(h, target, decoded.val.source_name,
                               unwrap_or(decoded.val.target_name, decoded.val.source_name),
                               source_environment)
    IN  IF decoded.ok /\ ~h[target].undefined_define
        THEN [heap |-> r.heap, result |-> FnTool_invoke_json(decoded, r.result)]
        ELSE [heap |-> h, result |-> FnTool_invoke_json(decoded, Ok(TUnit))]

define_tool_invoke_json(h, target, input, source_environment) ==
    LET decoded == from_value("DefineToolInput", input)
        r       == define_tool(h, target, decoded.val.source_name,
                               unwrap_or(decoded.val.target_name, decoded.val.source_name),
                               source_environment)
    IN  IF decoded.ok
        THEN [heap |-> r.heap, result |-> FnTool_invoke_json(decoded, r.result)]
        ELSE [heap |-> h, result |-> FnTool_invoke_json(decoded, Ok(TUnit))]

undefine_tool_invoke_json(h, target, input) ==
    LET decoded == from_value("UndefineToolInput", input)
        r       == undefine(h, target, decoded.val.name)
    IN  IF decoded.ok
        THEN [heap |-> r.heap, result |-> FnTool_invoke_json(decoded, Ok(TBool(r.removed)))]
        ELSE [heap |-> h, result |-> FnTool_invoke_json(decoded, Ok(TUnit))]

list_tools_invoke_json(h, target, input, keys) ==
    LET decoded == from_value("unit", input)
    IN  [heap   |-> h,
         result |-> FnTool_invoke_json(decoded,
                       Ok(TListToolsResult(list_tools(h, target, keys))))]

(***************************************************************************)
(* Invoking tools                                                          *)
(***************************************************************************)
\* make_pure_tool(|_: ()| 1), the tool `one` of the evaluator's tests
One == [kind |-> "one", id |-> 0, target |-> "-"]

\* make_pure_tool(|_: ()| ()), the `subtool` of the evaluator's tests
UnitTool == [kind |-> "unit", id |-> 0, target |-> "-"]

\* make_tool(|x: i32| if x > 0 { Ok(x-1) } else { Err(false) })
DecTool == [kind |-> "dec", id |-> 0, target |-> "-"]

\* function-built tools whose result, or whose error, does not serialise
UnencodableTool == [kind |-> "unencodable", id |-> 0, target |-> "-"]

UnencodableErrTool == [kind |-> "unencodable_err", id |-> 0, target |-> "-"]

\* a Tool implemented directly (as InterpretedScriptTool is) that fails
RawErrTool == [kind |-> "raw_err", id |-> 0, target |-> "-"]

\* make_dynamic_tool(|_: (), env| define_pure_tool(env, "subtool", |_: ()| ()))
MakeTool == [kind |-> "make_tool", id |-> 0, target |-> "-"]

\* make_dynamic_tool(|_: (), env| env.get_json_tool("one")?.invoke_json(Null, env))
CallOne == [kind |-> "call_one", id |-> 0, target |-> "-"]

FnKinds == {"fn", "one", "unit", "dec", "unencodable", "unencodable_err"}

\* TIn of a function-built tool
FnInType(tool) == IF tool.kind \in {"fn", "dec"} THEN "i32" ELSE "unit"

\* what the function of a function-built tool returns for the decoded input x
FnBody(tool, x) ==
    CASE tool.kind = "fn"   -> Ok(TI32(x.n + tool.id))
      [] tool.kind = "one"  -> Ok(TI32(1))
      [] tool.kind = "unit" -> Ok(TUnit)
      [] tool.kind = "dec"  -> IF x.n > 0 THEN Ok(TI32(x.n - 1)) ELSE Err(TBool(FALSE))
      [] tool.kind = "unencodable" -> Ok(TUnencodable)
      [] OTHER              -> Err(TUnencodable)

\* the enumeration order of the map that is listed: the given one if it
\* enumerates that map's keys
KeysOf(h, arc, keys) ==
    IF {keys[i] : i \in 1..Len(keys)} = DOMAIN h[arc].tools
          /\ Len(keys) = Cardinality(DOMAIN h[arc].tools)
    THEN keys
    ELSE CHOOSE k \in KeyOrders(DOMAIN h[arc].tools) : TRUE

\* Tool::invoke_json of the tools that do not call other tools
Tool_invoke_leaf(h, tool, input, environment, keys) ==
    CASE tool.kind \in FnKinds ->
            LET decoded == from_value(FnInType(tool), input)
            IN  [heap   |-> h,
                 result |-> FnTool_invoke_json(decoded, FnBody(tool, decoded.val))]
      [] tool.kind = DEFINE_TOOL ->
            define_tool_invoke_json(h, tool.target, input, environment)
      [] tool.kind = UNDEFINE_TOOL ->
            undefine_tool_invoke_json(h, tool.target, input)
      [] tool.kind = LIST_TOOLS ->
            list_tools_invoke_json(h, tool.target, input, KeysOf(h, tool.target, keys))
      [] OTHER ->
            [heap |-> h, result |-> Err(JError("boom"))]

\* mutant: the error of the underlying tool is reported as a decode failure
TypedTool_invoke_rewraps_error(h, tool, x, outTy, environment, keys) ==
    LET json_input  == to_value(x)
        json_output == Tool_invoke_leaf(h, tool, json_input.val, environment, keys)
        result      == from_value(outTy, json_output.result.val)
    IN  IF json_input.ok
        THEN [heap   |-> json_output.heap,
              calls  |-> <<json_input.val>>,
              result |-> IF json_output.result.ok /\ result.ok
                         THEN Ok(result.val)
                         ELSE Err(JError("Result decode failed"))]
        ELSE [heap |-> h, calls |-> <<>>, result |-> Err(JError("Input encode failed"))]

\* TypedTool::invoke once the underlying tool has returned json_output (the
\* heap after its call and its JSON result)
TypedTool_decode(outTy, json_input, json_output) ==
    [heap   |-> json_output.heap,
     calls  |-> <<json_input>>,
     result |-> IF json_output.result.ok
                THEN IF from_value(outTy, json_output.result.val).ok
                     THEN Ok(from_value(outTy, json_output.result.val).val)
                     ELSE Err(JError("Result decode failed"))
                ELSE Err(json_output.result.val)]

\* TypedTool::<TIn, TOut>::invoke; `calls` lists the inputs the underlying
\* tool was invoked with
TypedTool_invoke(h, tool, x, outTy, environment, keys) ==
    IF to_value(x).ok
    THEN TypedTool_decode(outTy, to_value(x).val,
                          Tool_invoke_leaf(h, tool, to_value(x).val, environment, keys))
    ELSE [heap |-> h, calls |-> <<>>, result |-> Err(JError("Input encode failed"))]

\* StaticEnvironment::from_tool
StaticEnvironment_from_tool(name, tool) == StaticEnvironment([n \in {name} |-> tool])

get_tool(h, env, tool_name) ==
    LET r == get_json_tool(h, env, tool_name)
    IN  IF r.ok THEN Ok(r.tool) ELSE Err(JError("Tool not found"))

\* `?` on a Result<_, Value> whose Ok value is dropped: Ok(()) or the error
UnitResult(r) ==
    [heap   |-> r.heap,
     result |-> IF r.result.ok THEN Ok(TUnit) ELSE Err(TValue(r.result.val))]

\* Ok(tool.invoke_json(..)?): the JSON result as a Result<Value, Value>
ValueResult(r) ==
    [heap   |-> r.heap,
     result |-> [ok |-> r.result.ok, val |-> TValue(r.result.val)]]

define_new_tool(h, environment, new_tool_name, tool, keys) ==
    IF get_tool(h, environment, DEFINE_TOOL).ok
    THEN UnitResult(TypedTool_invoke(h, get_tool(h, environment, DEFINE_TOOL).val,
                        [ty |-> "DefineToolInput", source_name |-> new_tool_name,
                         target_name |-> Some(new_tool_name)],
                        "unit", StaticEnvironment_from_tool(new_tool_name, tool), keys))
    ELSE [heap |-> h, result |-> Err(TValue(get_tool(h, environment, DEFINE_TOOL).val))]

\* FnTool::invoke_json of a tool whose function acts on environments: `r` is
\* the heap after the function ran and the Result it returned
FnTool_invoke_dynamic(h, decoded, r) ==
    IF decoded.ok
    THEN [heap |-> r.heap, result |-> FnTool_invoke_json(decoded, r.result)]
    ELSE [heap |-> h, result |-> FnTool_invoke_json(decoded, Ok(TUnit))]

\* Tool::invoke_json of every tool of the model
Tool_invoke_json(h, tool, input, environment, keys) ==
    CASE tool.kind = "make_tool" ->
            FnTool_invoke_dynamic(h, from_value("unit", input),
                define_new_tool(h, environment, "subtool", UnitTool, keys))
      [] tool.kind = "call_one" ->
            FnTool_invoke_dynamic(h, from_value("unit", input),
                IF get_json_tool(h, environment, "one").ok
                THEN ValueResult(Tool_invoke_leaf(h, get_json_tool(h, environment, "one").tool,
                                                  JNull, environment, keys))
                ELSE [heap |-> h, result |-> Err(TValue(JStr("Couldn't find tool")))])
      [] OTHER -> Tool_invoke_leaf(h, tool, input, environment, keys)

(***************************************************************************)
(* The dynamic environment: one shared interior "D" driven through         *)
(* define / undefine and through the meta-tool handles it hands out        *)
(***************************************************************************)
Arcs == {"D", "E", "T", "A", "B"}

DynNames == {"define-tool", "list-tools", "test", "undefine-tool"}

\* source names given to define-tool: "new-tool" is a name no environment has
SourceNames == {"test", "new-tool"}

\* the environment of the tests that holds the tool to copy
SourceEnvironment == StaticEnvironment([n \in {"test"} |-> FnTool(1)])

\* environments a define-tool handle of D may be invoked with
CallerEnvironments == {SourceEnvironment, DynamicEnvironment("D")}

DefineToolInputs ==
    {JDefineToolInput(s, t) : s \in SourceNames, t \in {None} \cup {Some(n) : n \in DynNames}}
        \cup {JNull}

\* the meta-tool handles of D, retrieved from the freshly constructed environment
Handle(m) == DynamicEnvironment_get_json_tool([a \in Arcs |-> DynamicToolMap_new], "D", m).tool

NoOp == [op |-> "none"]

\* no tool handle is kept
NoHandle == [kind |-> "none"]

InitHeap == [a \in Arcs |-> DynamicToolMap_new]

\* VariableBindingEnvironment::new: no name is bound, slot 0 is the next one
VariableBindingEnvironment_new == [next_to_allocate |-> 0, bindings |-> <<>>]

\* ScriptExecutionEnvironment::new: the activation record is empty
ScriptExecutionEnvironment_new == <<>>

\* StatefulEvalTool::new: the two mutexes with what they protect; a mutex is
\* poisoned once a thread has panicked while holding it
StatefulEvalTool_new ==
    [binding |-> VariableBindingEnvironment_new,
     execution |-> ScriptExecutionEnvironment_new,
     binding_poisoned |-> FALSE,
     execution_poisoned |-> FALSE]

\* nobody is calling the stateful evaluator
NoThreads == <<>>

\* no binding environment is held
NoScopes == <<>>

\* Mutex::new: nobody holds `binding` or `execution`
NoMutexes == [binding |-> 0, execution |-> 0]

InitDyn ==
    /\ heap = InitHeap
    /\ undefinedOnce = {}
    /\ last = NoOp
    /\ children = <<>>
    /\ held = NoHandle
    /\ stateful = StatefulEvalTool_new
    /\ threads = NoThreads
    /\ scopes = NoScopes
    /\ mutexes = NoMutexes

Define(n, t) ==
    /\ heap' = define(heap, "D", n, t)
    /\ last' = [op |-> "define", name |-> n, tool |-> t,
                replaced |-> n \in DOMAIN heap["D"].tools]
    /\ UNCHANGED <<undefinedOnce, children, held, stateful, threads, scopes, mutexes>>

Undefine(n) ==
    LET r == undefine(heap, "D", n)
    IN  /\ heap' = r.heap
        /\ last' = [op |-> "undefine", name |-> n, removed |-> r.removed]
        /\ undefinedOnce' = undefinedOnce \cup ({n} \cap MetaNames)
        /\ UNCHANGED <<children, held, stateful, threads, scopes, mutexes>>

InvokeDefineTool(tool, input, source_environment) ==
    /\ tool.kind = DEFINE_TOOL
    /\ LET r == define_tool_invoke_json(heap, tool.target, input, source_environment)
       IN  /\ heap' = r.heap
           /\ last' = [op |-> "define-tool", input |-> input,
                       caller |-> source_environment, ret |-> r.result]
    /\ UNCHANGED <<undefinedOnce, children, held, stateful, threads, scopes, mutexes>>

InvokeUndefineTool(tool, n) ==
    /\ tool.kind = UNDEFINE_TOOL
    /\ LET r == undefine_tool_invoke_json(heap, tool.target, JUndefineToolInput(n))
       IN  /\ heap' = r.heap
           /\ last' = [op |-> "undefine-tool", name |-> n, ret |-> r.result]
    /\ undefinedOnce' = undefinedOnce \cup ({n} \cap MetaNames)
    /\ UNCHANGED <<children, held, stateful, threads, scopes, mutexes>>

InvokeListTools(tool) ==
    /\ tool.kind = LIST_TOOLS
    /\ \E keys \in KeyOrders(DOMAIN heap[tool.target].tools) :
          LET r == list_tools_invoke_json(heap, tool.target, JNull, keys)
          IN  /\ heap' = r.heap
              /\ last' = [op |-> "list-tools", ret |-> r.result]
    /\ UNCHANGED <<undefinedOnce, children, held, stateful, threads, scopes, mutexes>>

NextDyn ==
    \/ \E n \in DynNames, t \in UserTools : Define(n, t)
    \/ \E n \in DynNames : Undefine(n)
    \/ \E input \in DefineToolInputs, env \in CallerEnvironments :
          InvokeDefineTool(Handle(DEFINE_TOOL), input, env)
    \/ \E n \in DynNames : InvokeUndefineTool(Handle(UNDEFINE_TOOL), n)
    \/ InvokeListTools(Handle(LIST_TOOLS))

SpecDyn == InitDyn /\ [][NextDyn]_vars

(***************************************************************************)
(* Properties of the dynamic environment                                   *)
(***************************************************************************)
D == DynamicEnvironment("D")

\* the handles through which D is reached: the environment, a clone of it and
\* the clones owned by its meta-tool handles
ClonesOfD == {D, clone(D)} \cup {DynamicEnvironment(Handle(m).target) : m \in MetaNames}

Suppressed(map, m) ==
    CASE m = DEFINE_TOOL   -> map.undefined_define
      [] m = UNDEFINE_TOOL -> map.undefined_undefine
      [] m = LIST_TOOLS    -> map.undefined_list
      [] OTHER             -> TRUE

\* the name an operation defines or undefines ("-" if none)
TargetName(l) ==
    CASE l.op \in {"define", "undefine", "undefine-tool"} -> l.name
      [] l.op = "define-tool" /\ from_value("DefineToolInput", l.input).ok
            -> unwrap_or(l.input.target_name, l.input.source_name)
      [] OTHER -> "-"

AllNames == DynNames \cup SourceNames

\* C5: after define(n, t), get(n) through every clone yields t (also when n was
\* already defined: the latest definition wins), and the resolution of a name
\* changes only in a step that defines or undefines that very name.
C5_DefineThenGet ==
    [][ /\ last'.op = "define" =>
              \A env \in ClonesOfD :
                 get_json_tool(heap', env, last'.name) = ToolFound(last'.tool)
        /\ \A n \in AllNames :
              TargetName(last') # n =>
                 \A env \in ClonesOfD :
                    get_json_tool(heap', env, n) = get_json_tool(heap, env, n)
      ]_vars

\* a tool was redefined under a name that already had one, and under a meta name
C5_Witness ==
    /\ last.op = "define"
    /\ last.replaced
    /\ last.tool = FnTool(2)
    /\ get_json_tool(heap, D, last.name) = ToolFound(FnTool(2))

\* C6: undefine(n), directly or through the undefine-tool handle, returns true
\* iff it changed the state, i.e. iff n was in the map or n is a meta-tool name
\* not yet suppressed; afterwards get(n) is NotFound and a repeated undefine(n)
\* returns false.
C6_UndefineResult ==
    [][ last'.op \in {"undefine", "undefine-tool"} =>
          LET n       == last'.name
              map     == heap["D"]
              changed == n \in DOMAIN map.tools \/ (n \in MetaNames /\ ~Suppressed(map, n))
          IN  /\ last'.op = "undefine" => last'.removed = changed
              /\ last'.op = "undefine-tool" => last'.ret = Ok(JBool(changed))
              /\ changed <=> heap' # heap
              /\ get_json_tool(heap', D, n) = not_found
              /\ ~undefine(heap', "D", n).removed
      ]_vars

\* a synthesised meta-tool was undefined and the call returned true
C6_Witness ==
    /\ last.op = "undefine"
    /\ last.name = DEFINE_TOOL
    /\ last.removed
    /\ DOMAIN heap["D"].tools = {}

C6_WitnessTool ==
    /\ last.op = "undefine-tool"
    /\ last.name = UNDEFINE_TOOL
    /\ last.ret = Ok(JBool(TRUE))

\* C7: once undefine(m) has been executed for a meta-tool name m, get(m) is the
\* explicitly defined tool while there is one and NotFound otherwise; the
\* synthesised meta-tool never comes back.
C7_PermanentSuppression ==
    \A m \in undefinedOnce :
       LET map == heap["D"]
       IN  get_json_tool(heap, D, m) =
              IF m \in DOMAIN map.tools THEN ToolFound(map.tools[m]) ELSE not_found

\* a meta name was undefined, redefined explicitly and undefined again
C7_Witness ==
    /\ last.op = "undefine"
    /\ last.name \in MetaNames
    /\ last.removed
    /\ last.name \in undefinedOnce
    /\ Suppressed(heap["D"], last.name)
    /\ \E m \in undefinedOnce \ {last.name} : m \in DOMAIN heap["D"].tools

StrictlyAscending(s) == \A i \in 1..(Len(s) - 1) : NameLess(s[i], s[i + 1])

Range(s) == {s[i] : i \in 1..Len(s)}

\* C8: the synthesised list-tools returns {names: L} with L strictly ascending
\* and the set of L equal to the map's keys united with the meta-tool names not
\* suppressed; a fresh environment lists define-tool, list-tools, undefine-tool.
C8_ListTools ==
    last.op = "list-tools" =>
       LET map == heap["D"]
       IN  /\ last.ret.ok
           /\ last.ret.val.j = "Object"
           /\ StrictlyAscending(last.ret.val.names)
           /\ Range(last.ret.val.names) =
                 DOMAIN map.tools \cup {m \in MetaNames : ~Suppressed(map, m)}
           /\ map = DynamicToolMap_new =>
                 last.ret.val.names = <<"define-tool", "list-tools", "undefine-tool">>

\* listed while a meta name is both redefined in the map and still synthesised
C8_Witness ==
    /\ last.op = "list-tools"
    /\ "test" \in DOMAIN heap["D"].tools
    /\ \E m \in MetaNames : m \in DOMAIN heap["D"].tools /\ ~Suppressed(heap["D"], m)
    /\ \E m \in MetaNames : Suppressed(heap["D"], m)

\* what the define-tool call of a step did to D, given the lookup of s in C
C9_Defines(frameOfC) ==
        (last'.op = "define-tool" /\ from_value("DefineToolInput", last'.input).ok) =>
          LET s      == last'.input.source_name
              target == unwrap_or(last'.input.target_name, s)
              C      == last'.caller
              found  == get_json_tool(heap, C, s)
          IN  IF found.ok
              THEN /\ get_json_tool(heap', D, target) = found
                   /\ \A n \in AllNames \ {target} :
                         get_json_tool(heap', D, n) = get_json_tool(heap, D, n)
                   /\ \A n \in AllNames \ frameOfC[<<C, target>>] :
                         get_json_tool(heap', C, n) = get_json_tool(heap, C, n)
                   /\ last'.ret = Ok(JNull)
              ELSE /\ last'.ret.val = JError("Could not find source tool")
                   /\ heap' = heap

\* C9 as stated: the caller environment C is left unchanged in every name
C9_Original == [][C9_Defines([x \in CallerEnvironments \X AllNames |-> {}])]_vars

\* C9: define-tool looks s up in C and defines it in D under t (or s), leaving
\* every other name of D unchanged; C is unchanged too, except that when C is D
\* itself it shows the new definition under the target name; if C has no s the
\* result is the error object and D is unchanged.
C9_DefineTool ==
    [][C9_Defines([x \in CallerEnvironments \X AllNames |->
                     IF x[1] = D THEN {x[2]} ELSE {}])]_vars

\* the tool of the source environment was defined under another name while D
\* had a different tool under the source name
C9_Witness ==
    /\ last.op = "define-tool"
    /\ last.input = JDefineToolInput("test", Some(DEFINE_TOOL))
    /\ last.caller = SourceEnvironment
    /\ last.ret = Ok(JNull)
    /\ get_json_tool(heap, D, "test") = ToolFound(FnTool(2))
    /\ get_json_tool(heap, D, DEFINE_TOOL) = ToolFound(FnTool(1))

(***************************************************************************)
(* The evaluator: a script statement run against the host environment "E"  *)
(***************************************************************************)
E == DynamicEnvironment("E")

HostNames == {"make_tool", "subtool", "one", "call_one"}

ScriptNames == HostNames \cup MetaNames

\* the tools the host program defines under each name
HostTools(n) ==
    CASE n = "make_tool" -> {MakeTool}
      [] n = "call_one"  -> {CallOne}
      [] n = "one"       -> {One, FnTool(1)}
      [] OTHER           -> {UnitTool}

Identifier(n) == [e |-> "Identifier", name |-> n]

Apply(n, v) == [e |-> "Apply", name |-> n, arg |-> v]

\* the values the argument expressions of the model evaluate to
ScriptArguments ==
    {JNum(1), JUndefineToolInput("one"), JDefineToolInput("list-tools", Some("subtool"))}

\* the statements RunCommand(id) and RunCommand(id(v)) of the model
Statements ==
    {Identifier(n) : n \in ScriptNames}
        \cup {Apply(n, v) : n \in ScriptNames, v \in ScriptArguments}

\* mutant: the tool is handed the caller's environment
call_tool_in_caller_environment(h, tool, parameters, environment, keys) ==
    LET r == Tool_invoke_json(h, tool, parameters, environment, keys)
    IN  [heap |-> r.heap, result |-> r.result, entry |-> h, passed |-> environment]

\* what the evaluator's call came to: the heap and result of the tool, the
\* environment `passed` to it and the heap `entry` at the moment it was entered
Called(entry, passed, r) ==
    [heap |-> r.heap, result |-> r.result, entry |-> entry, passed |-> passed]

\* call_tool with tool_environment, the interior "T", freshly constructed in h0
call_tool_with(h0, tool, parameters, tool_environment, keys) ==
    Called(h0, tool_environment, Tool_invoke_json(h0, tool, parameters, tool_environment, keys))

call_tool(h, tool, parameters, environment, keys) ==
    call_tool_with([h EXCEPT !["T"] = DynamicToolMap_new], tool, parameters,
                   DynamicEnvironment("T"), keys)

Resolvable(h, env) == {n \in ScriptNames : get_json_tool(h, env, n).ok}

InitEval ==
    /\ heap = InitHeap
    /\ undefinedOnce = {}
    /\ last = NoOp
    /\ children = <<>>
    /\ held = NoHandle
    /\ stateful = StatefulEvalTool_new
    /\ threads = NoThreads
    /\ scopes = NoScopes
    /\ mutexes = NoMutexes

DefineHost(n, t) ==
    /\ heap' = define(heap, "E", n, t)
    /\ last' = [op |-> "define", name |-> n, tool |-> t]
    /\ UNCHANGED <<undefinedOnce, children, held, stateful, threads, scopes, mutexes>>

UndefineHost(n) ==
    LET r == undefine(heap, "E", n)
    IN  /\ heap' = r.heap
        /\ last' = [op |-> "undefine", name |-> n, removed |-> r.removed]
        /\ UNCHANGED <<undefinedOnce, children, held, stateful, threads, scopes, mutexes>>

\* evaluate_unbound_statement(RunCommand(stmt), E): bind the identifier in E,
\* then call the tool it is bound to
Eval(stmt, keys) ==
    LET bound      == get_json_tool(heap, E, stmt.name)
        parameters == IF stmt.e = "Apply" THEN stmt.arg ELSE JNull
    IN  /\ IF bound.ok
           THEN \E c \in {call_tool(heap, bound.tool, parameters, E, keys)} :
                   /\ heap' = c.heap
                   /\ last' = [op |-> "eval", stmt |-> stmt, called |-> TRUE,
                               tool |-> bound.tool,
                               host |-> Resolvable(heap, E),
                               visible |-> Resolvable(c.entry, c.passed),
                               ret |-> c.result]
           ELSE /\ heap' = heap
                /\ last' = [op |-> "eval", stmt |-> stmt, called |-> FALSE,
                            ret |-> Err(JError("ExpressionDoesNotEvaluateToTool"))]
        /\ UNCHANGED <<undefinedOnce, children, held, stateful, threads, scopes, mutexes>>

NextEval ==
    \/ \E n \in HostNames : \E t \in HostTools(n) : DefineHost(n, t)
    \/ \E n \in HostNames : UndefineHost(n)
    \/ \E stmt \in Statements :
          \E keys \in IF stmt = Identifier(LIST_TOOLS)
                       THEN KeyOrders(DOMAIN heap["E"].tools)
                       ELSE {<<>>} :
             Eval(stmt, keys)

SpecEval == InitEval /\ [][NextEval]_vars

\* C1 as stated: whenever the evaluator calls a tool for a script run against
\* E, every name resolves in E after the call iff it resolved before the call.
C1_Original ==
    [][ (last'.op = "eval" /\ last'.called) =>
           \A n \in ScriptNames :
              get_json_tool(heap', E, n).ok = get_json_tool(heap, E, n).ok ]_vars

\* C1: when the evaluator calls a tool for a script run against E, what the
\* tool defines in the environment it receives does not show in E: unless the
\* tool is a define-tool / undefine-tool handle synthesised by E itself (which
\* acts on E, the environment it was obtained from), every name resolves in E
\* after the call exactly as before it.
C1_NoLeak ==
    [][ (last'.op = "eval" /\ last'.called /\ last'.tool.target # "E") =>
           \A n \in ScriptNames :
              get_json_tool(heap', E, n) = get_json_tool(heap, E, n) ]_vars

\* make_tool was called, defined subtool in the environment it received, and
\* subtool does not resolve in E
C1_Witness ==
    /\ last.op = "eval"
    /\ last.called
    /\ last.tool = MakeTool
    /\ last.ret = Ok(JNull)
    /\ "subtool" \in DOMAIN heap["T"].tools
    /\ ~get_json_tool(heap, E, "subtool").ok

\* C2: every name that resolves in E also resolves in the environment that is
\* passed to a tool the evaluator calls.
C2_CallerToolsVisible ==
    (last.op = "eval" /\ last.called) => last.host \subseteq last.visible

(***************************************************************************)
(* Function-built tools and typed views, invoked directly                  *)
(***************************************************************************)
FnTools == UserTools \cup {One, UnitTool, DecTool, UnencodableTool, UnencodableErrTool}

JsonInputs == {JNull, JStr("x")} \cup {JNum(k) : k \in 0..MaxInt}

TypedInputs == {TUnit, TUnencodable, TBool(TRUE)} \cup {TI32(k) : k \in 0..MaxInt}

OutTypes == {"i32", "unit", "bool", "Value"}

InitFn ==
    /\ heap = InitHeap
    /\ undefinedOnce = {}
    /\ last = NoOp
    /\ children = <<>>
    /\ held = NoHandle
    /\ stateful = StatefulEvalTool_new
    /\ threads = NoThreads
    /\ scopes = NoScopes
    /\ mutexes = NoMutexes

\* tool.invoke_json(input, &EmptyEnvironment::new())
InvokeJson(tool, input) ==
    \E decoded \in {from_value(FnInType(tool), input)},
       r \in {Tool_invoke_json(heap, tool, input, EmptyEnvironment, <<>>)} :
        /\ last' = [op |-> "invoke_json", tool |-> tool, input |-> input,
                    decoded |-> decoded.ok,
                    fres |-> IF decoded.ok THEN FnBody(tool, decoded.val) ELSE Ok(TUnit),
                    ret |-> r.result]
        /\ heap' = r.heap
        /\ UNCHANGED <<undefinedOnce, children, held, stateful, threads, scopes, mutexes>>

\* TypedTool::from(tool).invoke(x, &EmptyEnvironment::new())
InvokeTyped(tool, x, outTy) ==
    \E r \in {TypedTool_invoke(heap, tool, x, outTy, EmptyEnvironment, <<>>)} :
        /\ last' = [op |-> "typed", tool |-> tool, x |-> x, outTy |-> outTy,
                    calls |-> r.calls, ret |-> r.result]
        /\ heap' = r.heap
        /\ UNCHANGED <<undefinedOnce, children, held, stateful, threads, scopes, mutexes>>

NextFn ==
    \/ \E tool \in FnTools, input \in JsonInputs : InvokeJson(tool, input)
    \/ \E tool \in FnTools \cup {RawErrTool}, x \in TypedInputs, outTy \in OutTypes :
          InvokeTyped(tool, x, outTy)

SpecFn == InitFn /\ [][NextFn]_vars

\* C3: a function-built tool returns Err(encode(e)) when its function returns
\* Err(e) and Ok(encode(r)) when it returns Ok(r); a failure of the function is
\* never delivered on the Ok channel.
C3_ErrorChannel ==
    (last.op = "invoke_json" /\ last.decoded /\ to_value(last.fres.val).ok) =>
       last.ret = [ok |-> last.fres.ok, val |-> to_value(last.fres.val).val]

\* C4: if encode(x) = v then the typed view invokes T exactly once, with v; if
\* T returns Ok(w) and decode(w) = Ok(y) the view returns Ok(y), and if T
\* returns Err(e) the view returns Err(e) unchanged.
C4_TypedView ==
    (last.op = "typed" /\ to_value(last.x).ok) =>
       LET v == to_value(last.x).val
           w == Tool_invoke_json(heap, last.tool, v, EmptyEnvironment, <<>>).result
           y == from_value(last.outTy, w.val)
       IN  /\ last.calls = <<v>>
           /\ (w.ok /\ y.ok) => last.ret = Ok(y.val)
           /\ ~w.ok => last.ret = Err(w.val)

\* the view decoded a result of the tool
C4_WitnessOk ==
    /\ last.op = "typed"
    /\ last.tool = FnTool(1)
    /\ last.x = TI32(1)
    /\ last.ret = Ok(TI32(2))

\* the view passed on an error of the tool
C4_Witness ==
    /\ last.op = "typed"
    /\ last.tool = RawErrTool
    /\ last.x = TI32(1)
    /\ last.calls = <<JNum(1)>>
    /\ last.ret = Err(JError("boom"))

(***************************************************************************)
(* The layered (combined) environment over a sequence of children          *)
(***************************************************************************)
MaxChildren == 2

ChildArcs == {"A", "B"}

ChildEnvironments == {DynamicEnvironment(a) : a \in ChildArcs} \cup {SourceEnvironment}

\* names looked up through the layered environment; "new-tool" is in no child
LayeredNames == {"tool", "test", "new-tool", LIST_TOOLS}

\* the tool CombinedEnvironment synthesises for list-tools: a closure over the
\* list-tools implementations of the children that have one
CombinedListTools(tools) == [kind |-> "combined-list-tools", id |-> 0, target |-> "-", tools |-> tools]

RECURSIVE FilterOk(_)
\* .filter(|tool| tool.is_ok()).map(|tool| tool.unwrap()).collect()
FilterOk(results) ==
    IF results = <<>> THEN <<>>
    ELSE IF Head(results).ok
         THEN <<Head(results).tool>> \o FilterOk(Tail(results))
         ELSE FilterOk(Tail(results))

RECURSIVE Find(_)
\* .find(|env| env.is_some()) over the children's lookups
Find(results) ==
    IF results = <<>> THEN not_found
    ELSE IF Head(results).ok THEN Head(results) ELSE Find(Tail(results))

Reverse(s) == [i \in 1..Len(s) |-> s[Len(s) + 1 - i]]

RECURSIVE Concat(_)
Concat(lists) == IF lists = <<>> THEN <<>> ELSE Head(lists) \o Concat(Tail(lists))

\* mutant: the concatenated lists are sorted but duplicates are kept
collect_tool_list_keeps_duplicates(h, tools) ==
    LET results == [i \in 1..Len(tools) |->
                       Tool_invoke_leaf(h, tools[i], JNull, EmptyEnvironment, <<>>).result]
        names(r) == LET d == from_value("ListToolsResult", r.val)
                    IN  IF ~r.ok THEN <<>> ELSE IF d.ok THEN d.val.names ELSE <<>>
        final_result == Concat([i \in 1..Len(tools) |-> names(results[i])])
    IN  TListToolsResult(sort(final_result))

\* CombinedEnvironment::collect_tool_list: every implementation is invoked with
\* Null in the empty environment; failed calls are dropped and a result that
\* does not decode counts as an empty list
collect_tool_list(h, tools) ==
    LET results == [i \in 1..Len(tools) |->
                       Tool_invoke_leaf(h, tools[i], JNull, EmptyEnvironment, <<>>).result]
        names(r) == LET d == from_value("ListToolsResult", r.val)
                    IN  IF ~r.ok THEN <<>> ELSE IF d.ok THEN d.val.names ELSE <<>>
        final_result == Concat([i \in 1..Len(tools) |-> names(results[i])])
    IN  TListToolsResult(dedup(sort(final_result)))

\* invoke_json of the combined list-tools: make_pure_tool(|_: ()| collect_tool_list(..))
CombinedListTools_invoke_json(h, tool, input) ==
    FnTool_invoke_json(from_value("unit", input), Ok(collect_tool_list(h, tool.tools)))

\* mutant: the last child that has the name wins
CombinedEnvironment_get_last_match(h, environments, name) ==
    LET results == [i \in 1..Len(environments) |-> get_json_tool(h, environments[i], name)]
    IN  IF name = LIST_TOOLS
        THEN ToolFound(CombinedListTools(FilterOk(
                 [i \in 1..Len(environments) |-> get_json_tool(h, environments[i], LIST_TOOLS)])))
        ELSE Find(Reverse(results))

CombinedEnvironment_get_json_tool(h, environments, name) ==
    LET results == [i \in 1..Len(environments) |-> get_json_tool(h, environments[i], name)]
    IN  IF name = LIST_TOOLS
        THEN ToolFound(CombinedListTools(FilterOk(
                 [i \in 1..Len(environments) |-> get_json_tool(h, environments[i], LIST_TOOLS)])))
        ELSE Find(results)

\* CombinedEnvironment::from_environments(vec![...]) over fresh children
InitLayered ==
    /\ heap = InitHeap
    /\ undefinedOnce = {}
    /\ last = NoOp
    /\ children \in UNION {[1..k -> ChildEnvironments] : k \in 1..MaxChildren}
    /\ held = NoHandle
    /\ stateful = StatefulEvalTool_new
    /\ threads = NoThreads
    /\ scopes = NoScopes
    /\ mutexes = NoMutexes

DefineChild(a, n, t) ==
    /\ heap' = define(heap, a, n, t)
    /\ last' = [op |-> "define", name |-> n, tool |-> t]
    /\ UNCHANGED <<undefinedOnce, children, held, stateful, threads, scopes, mutexes>>

UndefineChild(a, n) ==
    LET r == undefine(heap, a, n)
    IN  /\ heap' = r.heap
        /\ last' = [op |-> "undefine", name |-> n, removed |-> r.removed]
        /\ UNCHANGED <<undefinedOnce, children, held, stateful, threads, scopes, mutexes>>

\* combined.get_json_tool(n); the caller keeps the list-tools it obtains
GetLayered(n) ==
    /\ last' = [op |-> "get", name |-> n,
                result |-> CombinedEnvironment_get_json_tool(heap, children, n)]
    /\ held' = IF n = LIST_TOOLS
               THEN CombinedEnvironment_get_json_tool(heap, children, n).tool
               ELSE held
    /\ UNCHANGED <<heap, undefinedOnce, children, stateful, threads, scopes, mutexes>>

\* CombinedEnvironment::list_tools: the children's list-tools are looked up and
\* invoked in one go
CombinedEnvironment_list_tools(h, environments) ==
    collect_tool_list(h, FilterOk(
        [i \in 1..Len(environments) |-> get_json_tool(h, environments[i], LIST_TOOLS)]))

\* combined.list_tools()
ListToolsLayered ==
    /\ last' = [op |-> "list_tools",
                ret |-> to_value(CombinedEnvironment_list_tools(heap, children))]
    /\ UNCHANGED <<heap, undefinedOnce, children, held, stateful, threads, scopes, mutexes>>

\* the list-tools obtained earlier from the combined environment is invoked
\* with Null; `fresh` tells whether a lookup now would build the same tool
InvokeHeldListTools ==
    /\ held # NoHandle
    /\ last' = [op |-> "invoke_list_tools",
                fresh |-> (ToolFound(held) =
                             CombinedEnvironment_get_json_tool(heap, children, LIST_TOOLS)),
                ret |-> CombinedListTools_invoke_json(heap, held, JNull)]
    /\ UNCHANGED <<heap, undefinedOnce, children, held, stateful, threads, scopes, mutexes>>

NextLayered ==
    \/ \E a \in ChildArcs, t \in UserTools : DefineChild(a, "tool", t)
    \/ \E a \in ChildArcs, n \in {"tool", LIST_TOOLS} : UndefineChild(a, n)
    \/ \E n \in LayeredNames : GetLayered(n)
    \/ ListToolsLayered
    \/ InvokeHeldListTools

SpecLayered == InitLayered /\ [][NextLayered]_vars

\* the children that have n
Having(n) == {i \in 1..Len(children) : get_json_tool(heap, children[i], n).ok}

\* what a list-tools implementation answers to Null
Listing(tool) ==
    IF tool.kind = "combined-list-tools"
    THEN CombinedListTools_invoke_json(heap, tool, JNull)
    ELSE Tool_invoke_leaf(heap, tool, JNull, EmptyEnvironment, <<>>).result

\* two lookups yield the same tool: the same handle, or two list-tools
\* implementations that answer alike
SameTool(r1, r2) ==
    \/ r1 = r2
    \/ /\ r1.ok /\ r2.ok
       /\ {r1.tool.kind, r2.tool.kind} \subseteq {LIST_TOOLS, "combined-list-tools"}
       /\ Listing(r1.tool) = Listing(r2.tool)

\* the lookup of n follows the first child that has it, NotFound if none has
FirstMatch(n, result) ==
    /\ \A i \in Having(n) :
          (\A j \in Having(n) : i <= j) =>
              SameTool(result, get_json_tool(heap, children[i], n))
    /\ Having(n) = {} => result = not_found

\* the names the children list, over all of them
ChildListings ==
    UNION {Range(Listing(get_json_tool(heap, children[i], LIST_TOOLS).tool).val.names) :
              i \in Having(LIST_TOOLS)}

\* C10 as stated: for every tool name n, layered.get(n) yields the tool of the
\* first child in construction order that has n, and NotFound if no child has n.
C10_Original == (last.op = "get") => FirstMatch(last.name, last.result)

\* C10: for every tool name n other than list-tools, layered.get(n) yields the
\* tool of the first child in construction order that has n, and NotFound if no
\* child has n; layered.get("list-tools") always succeeds, with a tool that
\* lists, sorted and without duplicates, the names listed by the children that
\* have a list-tools.
C10_FirstMatchWins ==
    (last.op = "get") =>
       IF last.name = LIST_TOOLS
       THEN /\ last.result.ok
            /\ Listing(last.result.tool).ok
            /\ StrictlyAscending(Listing(last.result.tool).val.names)
            /\ Range(Listing(last.result.tool).val.names) = ChildListings
       ELSE FirstMatch(last.name, last.result)

\* the second child has the name, the first has not, and the lookup found
\* the second child's tool
C10_Witness ==
    /\ last.op = "get"
    /\ last.name = "tool"
    /\ Len(children) = 2
    /\ Having("tool") = {2}
    /\ last.result = get_json_tool(heap, children[2], "tool")

\* both children have the name with different tools and the lookup found the
\* first child's
C10_WitnessOverride ==
    /\ last.op = "get"
    /\ last.name = "tool"
    /\ Having("tool") = {1, 2}
    /\ get_json_tool(heap, children[1], "tool") # get_json_tool(heap, children[2], "tool")
    /\ last.result = get_json_tool(heap, children[1], "tool")

(***************************************************************************)
(* C11: the combined list-tools                                            *)
(***************************************************************************)
\* ret is Ok({names: L}) with L strictly ascending and its set the one given
ListsExactly(ret, S) ==
    /\ ret.ok
    /\ StrictlyAscending(ret.val.names)
    /\ Range(ret.val.names) = S

\* the names listed by the list-tools implementations a combined tool holds
HeldListings ==
    UNION {Range(Listing(held.tools[i]).val.names) : i \in 1..Len(held.tools)}

Expression_String(s) == [e |-> "String", matched |-> s]

\* a Number token, given by its text
Expression_Number(n) == [e |-> "Number", matched |-> n]

Expression_Array(items) == [e |-> "Array", items |-> items]

Expression_Tuple(items) == [e |-> "Tuple", items |-> items]

\* items is a sequence of <<key expression, value expression>>
Expression_Map(items) == [e |-> "Map", items |-> items]

Expression_Index(lhs, rhs) == [e |-> "Index", lhs |-> lhs, rhs |-> rhs]

Expression_FieldAccess(lhs, rhs) == [e |-> "FieldAccess", lhs |-> lhs, rhs |-> rhs]

Expression_Apply(lhs, rhs) == [e |-> "Apply", lhs |-> lhs, rhs |-> rhs]

Script_RunCommand(expr) == [s |-> "RunCommand", expr |-> expr]

Script_Sequence(parts) == [s |-> "Sequence", parts |-> parts]

Script_Let(name, expr) == [s |-> "Let", name |-> name, expr |-> expr]

Script_Var(name, expr) == [s |-> "Var", name |-> name, expr |-> expr]

Script_Assign(name, expr) == [s |-> "Assign", name |-> name, expr |-> expr]

Script_Loop(body) == [s |-> "Loop", body |-> body]

Script_While(expr, body) == [s |-> "While", expr |-> expr, body |-> body]

Script_Using(expr, body) == [s |-> "Using", expr |-> expr, body |-> body]

Script_Def(name, expr, body) == [s |-> "Def", name |-> name, expr |-> expr, body |-> body]

BoundExpression_Value(v) == [b |-> "Value", val |-> v]

BoundExpression_Tool(tool, name) == [b |-> "Tool", tool |-> tool, name |-> name]

BoundExpression_Variable(slot, name) == [b |-> "Variable", slot |-> slot, name |-> name]

BoundExpression_Field(name) == [b |-> "Field", name |-> name]

BoundExpression_Array(items) == [b |-> "Array", items |-> items]

BoundExpression_Tuple(items) == [b |-> "Tuple", items |-> items]

BoundExpression_Map(items) == [b |-> "Map", items |-> items]

BoundExpression_Index(lhs, rhs) == [b |-> "Index", lhs |-> lhs, rhs |-> rhs]

BoundExpression_FieldAccess(lhs, rhs) == [b |-> "FieldAccess", lhs |-> lhs, rhs |-> rhs]

BoundExpression_Apply(lhs, rhs) == [b |-> "Apply", lhs |-> lhs, rhs |-> rhs]

BoundScript_AllocateVariables(num, script) == [s |-> "AllocateVariables", num |-> num, script |-> script]

BoundScript_RunCommand(expr) == [s |-> "RunCommand", expr |-> expr]

BoundScript_Sequence(steps) == [s |-> "Sequence", steps |-> steps]

BoundScript_Var(index, expr, name) == [s |-> "Var", index |-> index, expr |-> expr, name |-> name]

BoundScript_Assign(index, expr, name) == [s |-> "Assign", index |-> index, expr |-> expr, name |-> name]

BoundScript_Loop(body) == [s |-> "Loop", body |-> body]

\* a JSON array and a JSON object (a map from keys to values)
JArray(items) == [j |-> "Array", items |-> items]

JObject(map) == [j |-> "Object", map |-> map]

\* a thread that panics returns nothing: the call is left by unwinding
Panic(what) == [ok |-> FALSE, panic |-> what]

Panicked(r) == "panic" \in DOMAIN r

(***************************************************************************)
(* Binding                                                                 *)
(***************************************************************************)
\* an f64 as a JSON number
JFloat(x) == [j |-> "Number", n |-> x, float |-> TRUE]

\* parse_number on the number tokens of the model: text with a '.' or an
\* exponent is an f64, text starting 0x a hexadecimal i64, other text an i64
parse_number(number) ==
    CASE number = "-1"  -> JNum(-1)
      [] number = "0"   -> JNum(0)
      [] number = "1"   -> JNum(1)
      [] number = "2"   -> JNum(2)
      [] number = "3"   -> JNum(3)
      [] number = "4"   -> JNum(4)
      [] number = "0x2" -> JNum(2)
      [] number = "1.0" -> JFloat(1)
      [] OTHER          -> JFloat(2)

\* lookup in the pair (variables, ToolBindingEnvironment over environment):
\* a variable of that name first, then a tool of the environment
lookup(h, B, environment, name) ==
    IF name \in DOMAIN B.bindings
    THEN [kind |-> "Variable", slot |-> B.bindings[name]]
    ELSE IF get_json_tool(h, environment, name).ok
         THEN [kind |-> "Tool", tool |-> get_json_tool(h, environment, name).tool]
         ELSE [kind |-> "Error"]

BoundTo(bound_to, name) ==
    CASE bound_to.kind = "Tool"     -> Ok(BoundExpression_Tool(bound_to.tool, name))
      [] bound_to.kind = "Variable" -> Ok(BoundExpression_Variable(bound_to.slot, name))
      [] OTHER -> Err(JError("ExpressionDoesNotEvaluateToTool"))

bind_tool(h, B, environment, name) == BoundTo(lookup(h, B, environment, name), name)

bind_field_expression(expr) ==
    IF expr.e = "Identifier"
    THEN Ok(BoundExpression_Field(expr.name))
    ELSE Err(JError("FieldMustBeIdentifier"))

\* the index of the first failed result of a sequence of results, 0 if none
FirstFailure(results) ==
    IF \A i \in 1..Len(results) : results[i].ok
    THEN 0
    ELSE CHOOSE i \in 1..Len(results) :
            /\ ~results[i].ok
            /\ \A k \in 1..(i - 1) : results[k].ok

\* `?` over a sequence of results: the values of all, or the first failure
Collect(results) ==
    IF FirstFailure(results) = 0
    THEN Ok([i \in 1..Len(results) |-> results[i].val])
    ELSE results[FirstFailure(results)]

\* the two halves of a pair expression bound left to right
BindPair(tag, l, r) ==
    IF ~l.ok THEN l
    ELSE IF ~r.ok THEN r
    ELSE Ok([b |-> tag, lhs |-> l.val, rhs |-> r.val])

MapItems(bound) ==
    IF bound.ok
    THEN Ok(BoundExpression_Map([i \in 1..(Len(bound.val) \div 2) |->
                                    <<bound.val[2 * i - 1], bound.val[2 * i]>>]))
    ELSE bound

Tagged(tag, bound) == IF bound.ok THEN Ok([b |-> tag, items |-> bound.val]) ELSE bound

RECURSIVE bind_expression(_, _, _, _)
\* binding reads the binding environment and never changes it
bind_expression(h, B, environment, expr) ==
    CASE expr.e = "String" -> Ok(BoundExpression_Value(JStr(expr.matched)))
      [] expr.e = "Number" -> Ok(BoundExpression_Value(parse_number(expr.matched)))
      [] expr.e \in {"Array", "Tuple"} ->
            Tagged(expr.e, Collect([i \in 1..Len(expr.items) |->
                                       bind_expression(h, B, environment, expr.items[i])]))
      [] expr.e = "Map" ->
            MapItems(Collect([i \in 1..(2 * Len(expr.items)) |->
                                 bind_expression(h, B, environment,
                                                 expr.items[(i + 1) \div 2][2 - (i % 2)])]))
      [] expr.e = "Identifier" -> bind_tool(h, B, environment, expr.name)
      [] expr.e = "FieldAccess" ->
            BindPair("FieldAccess", bind_expression(h, B, environment, expr.lhs),
                     bind_field_expression(expr.rhs))
      [] OTHER ->
            BindPair(expr.e, bind_expression(h, B, environment, expr.lhs),
                     bind_expression(h, B, environment, expr.rhs))

\* what binding a statement came to: the result and the binding table after it
Bound(result, B) == [result |-> result, B |-> B]

allocate_variable(B, name) ==
    IF name \in DOMAIN B.bindings
    THEN Bound(Err("AlreadyInUse"), B)
    ELSE Bound(Ok(B.next_to_allocate),
               [next_to_allocate |-> B.next_to_allocate + 1,
                bindings |-> [n \in DOMAIN B.bindings \cup {name} |->
                                 IF n = name THEN B.next_to_allocate ELSE B.bindings[n]]])

\* { "error": error, "failed-statement": script }
generate_statement_error(error, script) ==
    [j |-> "Object", error |-> error, failed_statement |-> script]

bind_variable_name(B, name, script) ==
    IF allocate_variable(B, name).result.ok
    THEN allocate_variable(B, name)
    ELSE Bound(Err(generate_statement_error("VariableNameAlreadyInUse", script)), B)

get_variable_name(h, B, environment, name, script) ==
    CASE lookup(h, B, environment, name).kind = "Variable" ->
            Ok(lookup(h, B, environment, name).slot)
      [] lookup(h, B, environment, name).kind = "Tool" ->
            Err(generate_statement_error("WasExpectingAVariable", script))
      [] OTHER -> Err(generate_statement_error("VariableNameNotFound", script))

\* Var / Assign once the slot and the expression have been bound, in that order
BindAssignment(tag, name, slot, expr, B) ==
    IF ~slot.ok THEN Bound(slot, B)
    ELSE IF ~expr.ok THEN Bound(expr, B)
    ELSE Bound(Ok([s |-> tag, index |-> slot.val, expr |-> expr.val, name |-> name]), B)

BindVar(h, name, expr, environment, allocated) ==
    IF allocated.result.ok
    THEN BindAssignment("Var", name, allocated.result,
                        bind_expression(h, allocated.B, environment, expr), allocated.B)
    ELSE allocated

RunCommandOf(expr, B) ==
    Bound(IF expr.ok THEN Ok(BoundScript_RunCommand(expr.val)) ELSE expr, B)

RECURSIVE bind_statement_without_allocation(_, _, _, _)
RECURSIVE bind_sequence(_, _, _, _, _, _)
\* `?` and push in the loop of bind_sequence: `next` is statement i, bound
bind_sequence_push(h, sequence, environment, i, result, next) ==
    IF next.result.ok
    THEN bind_sequence(h, sequence, next.B, environment, i + 1,
                       Append(result, next.result.val))
    ELSE next

\* the loop of bind_sequence from statement i on, `result` holding the
\* statements bound so far
bind_sequence(h, sequence, B, environment, i, result) ==
    IF i > Len(sequence)
    THEN Bound(Ok(BoundScript_Sequence(result)), B)
    ELSE bind_sequence_push(h, sequence, environment, i, result,
                            bind_statement_without_allocation(h, sequence[i], B,
                                                              environment))

bind_statement_without_allocation(h, script, B, environment) ==
    CASE script.s = "RunCommand" ->
            RunCommandOf(bind_expression(h, B, environment, script.expr), B)
      [] script.s = "Sequence" -> bind_sequence(h, script.parts, B, environment, 1, <<>>)
      [] script.s = "Var" ->
            BindVar(h, script.name, script.expr, environment,
                    bind_variable_name(B, script.name, script))
      [] script.s = "Assign" ->
            BindAssignment("Assign", script.name,
                           get_variable_name(h, B, environment, script.name, script),
                           bind_expression(h, B, environment, script.expr), B)
      [] OTHER -> Bound(Panic("not implemented"), B)

\* wrap the bound script in the allocation the new variables need
Allocating(initial_variable_count, bound) ==
    IF bound.result.ok /\ initial_variable_count < bound.B.next_to_allocate
    THEN Bound(Ok(BoundScript_AllocateVariables(bound.B.next_to_allocate, bound.result.val)),
               bound.B)
    ELSE bound

bind_statement(h, script, B, environment) ==
    Allocating(B.next_to_allocate, bind_statement_without_allocation(h, script, B, environment))

(***************************************************************************)
(* Evaluation                                                              *)
(***************************************************************************)
\* what the evaluator did, in order: a tool it invoked, or a slot of the
\* activation record it read or wrote (`reserved`: the record has that slot)
ToolCall(name) == [ev |-> "call", name |-> name]

SlotRead(X, pos) == [ev |-> "read", slot |-> pos, reserved |-> pos < Len(X)]

SlotWrite(X, pos) == [ev |-> "write", slot |-> pos, reserved |-> pos < Len(X)]

\* what evaluating an expression came to: its result and what was done
Evaluated(result, trace) == [result |-> result, trace |-> trace]

\* what evaluating a statement came to, X being the activation record after it
Executed(result, X, trace) == [result |-> result, X |-> X, trace |-> trace]

\* an allocation that starts the activation record again
allocate_variables_afresh(X, num_variables) ==
    IF Len(X) < num_variables
    THEN [i \in 1..num_variables |-> JNull]
    ELSE X

allocate_variables(X, num_variables) ==
    IF Len(X) < num_variables
    THEN X \o [i \in 1..(num_variables - Len(X)) |-> JNull]
    ELSE X

set_variable(X, pos, value) ==
    IF pos < Len(X) THEN [X EXCEPT ![pos + 1] = value] ELSE X

\* indexing the vector beyond its length panics
get_variable(X, pos) ==
    IF pos < Len(X) THEN Ok(X[pos + 1]) ELSE Panic("index out of bounds")

\* mutant: a negative index counts from the other end of a three-element array
as_u64_wraps_around(number) ==
    IF "float" \in DOMAIN number
    THEN None
    ELSE IF number.n >= 0 THEN Some(number.n) ELSE Some(number.n + 3)

\* Number::as_u64: the number when it is a non-negative integer; the position
\* it is converted to (`as usize`) is the same number, usize being 64 bits wide
as_u64(number) ==
    IF "float" \notin DOMAIN number /\ number.n >= 0 THEN Some(number.n) ELSE None

\* str::chars of the strings of the model: their code points, in order
chars(string) ==
    CASE string = ""    -> <<>>
      [] string = "abc" -> <<"a", "b", "c">>
      [] string = "h+e-acute" -> <<"h", "e-acute">>
      [] OTHER          -> <<string>>

\* slice::get and Iterator::nth: the element at a 0-based position, if any
get(items, index) ==
    IF index # None /\ index[1] < Len(items) THEN Some(items[index[1] + 1]) ELSE None

ok_or(o, error) == IF o = None THEN Err(JError(error)) ELSE Ok(o[1])

\* the fields of a JSON object
ObjectMap(object) ==
    IF "map" \in DOMAIN object
    THEN object.map
    ELSE [k \in DOMAIN object \ {"j"} |-> object[k]]

map_get(map, key) == IF key \in DOMAIN map THEN Some(map[key]) ELSE None

\* the match of evaluate_index on the two evaluated sides
Indexed(lhs_res, rhs_res) ==
    CASE lhs_res.j = "Array" ->
            IF rhs_res.j = "Number"
            THEN ok_or(get(lhs_res.items, as_u64(rhs_res)), "IndexOutOfBounds")
            ELSE Err(JError("ArrayIndexMustBeANumber"))
      [] lhs_res.j = "String" ->
            IF rhs_res.j = "Number"
            THEN ok_or(IF get(chars(lhs_res.s), as_u64(rhs_res)) = None
                       THEN None
                       ELSE Some(JStr(get(chars(lhs_res.s), as_u64(rhs_res))[1])),
                       "IndexOutOfBounds")
            ELSE Err(JError("ArrayIndexMustBeANumber"))
      [] lhs_res.j = "Object" ->
            IF rhs_res.j = "String"
            THEN ok_or(map_get(ObjectMap(lhs_res), rhs_res.s), "ObjectValueNotPresent")
            ELSE Err(JError("MapIndexMustBeAString"))
      [] OTHER -> Err(JError("IndexMustApplyToAnArrayOrAMap"))

evaluate_expression_to_tool(expression) ==
    IF expression.b = "Tool"
    THEN Ok(expression)
    ELSE Err(JError("ExpressionDoesNotEvaluateToTool"))

\* apply once the parameters have been evaluated
Applied(h, tool, parameters, environment) ==
    IF ~parameters.result.ok THEN parameters
    ELSE IF ~evaluate_expression_to_tool(tool).ok
         THEN Evaluated(evaluate_expression_to_tool(tool), parameters.trace)
         ELSE Evaluated(call_tool(h, tool.tool, parameters.result.val, environment,
                                  <<>>).result,
                        Append(parameters.trace, ToolCall(tool.name)))

\* evaluate_index once the left-hand side has been evaluated, then both
IndexedBoth(lhs, rhs) ==
    IF ~rhs.result.ok
    THEN Evaluated(rhs.result, lhs.trace \o rhs.trace)
    ELSE Evaluated(Indexed(lhs.result.val, rhs.result.val), lhs.trace \o rhs.trace)

RECURSIVE evaluate_expression(_, _, _, _)
RECURSIVE evaluate_array(_, _, _, _, _, _, _)
RECURSIVE evaluate_map(_, _, _, _, _, _, _)
\* `?` and push in the loop of evaluate_array: `next` is expression i, evaluated
evaluate_array_push(h, exprs, environment, X, i, result, trace, next) ==
    IF next.result.ok
    THEN evaluate_array(h, exprs, environment, X, i + 1,
                        Append(result, next.result.val), trace \o next.trace)
    ELSE Evaluated(next.result, trace \o next.trace)

\* the loop of evaluate_array from expression i on
evaluate_array(h, exprs, environment, X, i, result, trace) ==
    IF i > Len(exprs)
    THEN Evaluated(Ok(JArray(result)), trace)
    ELSE evaluate_array_push(h, exprs, environment, X, i, result, trace,
                             evaluate_expression(h, exprs[i], environment, X))

\* mutant: a key that is already present keeps the value it has
evaluate_map_insert_keeps_first(h, exprs, environment, X, i, result, trace, key, value) ==
    IF value.result.ok
    THEN evaluate_map(h, exprs, environment, X, i + 1,
                      IF key \in DOMAIN result
                      THEN result
                      ELSE Insert(result, key, value.result.val),
                      trace \o value.trace)
    ELSE Evaluated(value.result, trace \o value.trace)

\* the loop of evaluate_map at entry i once its key and value are evaluated
evaluate_map_insert(h, exprs, environment, X, i, result, trace, key, value) ==
    IF value.result.ok
    THEN evaluate_map(h, exprs, environment, X, i + 1,
                      Insert(result, key, value.result.val), trace \o value.trace)
    ELSE Evaluated(value.result, trace \o value.trace)

\* the loop of evaluate_map at entry i once its key is evaluated
evaluate_map_key(h, exprs, environment, X, i, result, trace, key) ==
    IF ~key.result.ok
    THEN Evaluated(key.result, trace \o key.trace)
    ELSE IF key.result.val.j # "String"
         THEN Evaluated(Err(JError("MapKeysMustEvaluateToAString")), trace \o key.trace)
         ELSE evaluate_map_insert(h, exprs, environment, X, i, result,
                                  trace \o key.trace, key.result.val.s,
                                  evaluate_expression(h, exprs[i][2], environment, X))

\* the loop of evaluate_map from entry i on
evaluate_map(h, exprs, environment, X, i, result, trace) ==
    IF i > Len(exprs)
    THEN Evaluated(Ok(JObject(result)), trace)
    ELSE evaluate_map_key(h, exprs, environment, X, i, result, trace,
                          evaluate_expression(h, exprs[i][1], environment, X))

apply(h, tool, parameters, environment, X) ==
    Applied(h, tool, evaluate_expression(h, parameters, environment, X), environment)

evaluate_index(h, lhs, rhs, environment, X) ==
    IF evaluate_expression(h, lhs, environment, X).result.ok
    THEN IndexedBoth(evaluate_expression(h, lhs, environment, X),
                     evaluate_expression(h, rhs, environment, X))
    ELSE evaluate_expression(h, lhs, environment, X)

evaluate_expression(h, expression, environment, X) ==
    CASE expression.b = "Value" -> Evaluated(Ok(expression.val), <<>>)
      [] expression.b = "Tool" ->
            Evaluated(call_tool(h, expression.tool, JNull, environment, <<>>).result,
                      <<ToolCall(expression.name)>>)
      [] expression.b = "Variable" ->
            Evaluated(get_variable(X, expression.slot), <<SlotRead(X, expression.slot)>>)
      [] expression.b = "Field" -> Evaluated(Panic("not implemented"), <<>>)
      [] expression.b \in {"Array", "Tuple"} ->
            evaluate_array(h, expression.items, environment, X, 1, <<>>, <<>>)
      [] expression.b = "Map" ->
            evaluate_map(h, expression.items, environment, X, 1, EmptyMap, <<>>)
      [] expression.b = "FieldAccess" -> Evaluated(Panic("not implemented"), <<>>)
      [] expression.b = "Apply" ->
            apply(h, expression.lhs, expression.rhs, environment, X)
      [] OTHER -> evaluate_index(h, expression.lhs, expression.rhs, environment, X)

\* evaluate_assignment once the expression has been evaluated
Assigned(X, variable_index, value) ==
    IF value.result.ok
    THEN Executed(value.result, set_variable(X, variable_index, value.result.val),
                  Append(value.trace, SlotWrite(X, variable_index)))
    ELSE Executed(value.result, X, value.trace)

evaluate_assignment(h, variable_index, expr, environment, X) ==
    Assigned(X, variable_index, evaluate_expression(h, expr, environment, X))

RunCommandResult(X, value) == Executed(value.result, X, value.trace)

RECURSIVE evaluate_statement(_, _, _, _)
RECURSIVE evaluate_sequence(_, _, _, _, _, _, _)
\* mutant: a failed statement is left out and the loop goes on
evaluate_sequence_push_skips_failure(h, sequence, environment, i, result, trace, next) ==
    evaluate_sequence(h, sequence, environment, next.X, i + 1,
                      IF next.result.ok THEN Append(result, next.result.val) ELSE result,
                      trace \o next.trace)

\* `?` and push in the loop of evaluate_sequence: `next` is statement i, evaluated
evaluate_sequence_push(h, sequence, environment, i, result, trace, next) ==
    IF next.result.ok
    THEN evaluate_sequence(h, sequence, environment, next.X, i + 1,
                           Append(result, next.result.val), trace \o next.trace)
    ELSE Executed(next.result, next.X, trace \o next.trace)

\* the loop of evaluate_sequence from statement i on
evaluate_sequence(h, sequence, environment, X, i, result, trace) ==
    IF i > Len(sequence)
    THEN Executed(Ok(JArray(result)), X, trace)
    ELSE evaluate_sequence_push(h, sequence, environment, i, result, trace,
                                evaluate_statement(h, sequence[i], environment, X))

evaluate_allocate_variables(h, num_variables, continuation, environment, X) ==
    evaluate_statement(h, continuation, environment, allocate_variables(X, num_variables))

evaluate_statement(h, statement, environment, X) ==
    CASE statement.s = "AllocateVariables" ->
            evaluate_allocate_variables(h, statement.num, statement.script, environment, X)
      [] statement.s = "RunCommand" ->
            RunCommandResult(X, evaluate_expression(h, statement.expr, environment, X))
      [] statement.s = "Sequence" ->
            evaluate_sequence(h, statement.steps, environment, X, 1, <<>>, <<>>)
      [] statement.s \in {"Var", "Assign"} ->
            evaluate_assignment(h, statement.index, statement.expr, environment, X)
      [] OTHER -> Executed(Err(JError("StatementNotImplemented")), X, <<>>)

(***************************************************************************)
(* The stateful evaluator: one StatefulEvalTool called again and again,    *)
(* each call with a host environment of the caller's choice                *)
(***************************************************************************)
\* StatefulEvalTool::bind_statement: lock `binding`, bind against the pair
\* (the evaluator's variables, the tools of the environment passed in)
StatefulEvalTool_bound(S, bound) ==
    [result |-> bound.result,
     S |-> [S EXCEPT !.binding = bound.B, !.binding_poisoned = Panicked(bound.result)]]

StatefulEvalTool_bind_statement(h, S, script, environment) ==
    IF S.binding_poisoned
    THEN [result |-> Panic("PoisonError"), S |-> S]
    ELSE StatefulEvalTool_bound(S, bind_statement(h, script, S.binding, environment))

\* StatefulEvalTool::evaluate_statement: lock `execution`, evaluate
StatefulEvalTool_evaluated(S, executed) ==
    [result |-> executed.result,
     trace |-> executed.trace,
     S |-> [S EXCEPT !.execution = executed.X,
                     !.execution_poisoned = Panicked(executed.result)]]

StatefulEvalTool_evaluate_statement(h, S, script, environment) ==
    IF S.execution_poisoned
    THEN [result |-> Panic("PoisonError"), trace |-> <<>>, S |-> S]
    ELSE StatefulEvalTool_evaluated(S, evaluate_statement(h, script, environment,
                                                          S.execution))

\* evaluate_unbound_statement once the script has been bound
StatefulEvalTool_evaluate_bound(h, bound, environment) ==
    IF bound.result.ok
    THEN StatefulEvalTool_evaluate_statement(h, bound.S, bound.result.val, environment)
    ELSE [result |-> bound.result, trace |-> <<>>, S |-> bound.S]

StatefulEvalTool_evaluate_unbound_statement(h, S, script, environment) ==
    StatefulEvalTool_evaluate_bound(h, StatefulEvalTool_bind_statement(h, S, script,
                                                                       environment),
                                    environment)

\* the names scripts use, for variables and for tools
REPLNames == {"x", "t"}

\* the host environments a caller passes: "t" is a tool of two of them, with
\* different behaviour, and "x" a tool of one
HostWithT == StaticEnvironment([n \in {"t"} |-> One])

HostWithTX == StaticEnvironment([n \in {"t", "x"} |-> IF n = "t" THEN UnitTool ELSE One])

REPLHosts == {HostWithT, HostWithTX}

REPLLiterals == {"1", "2"}

REPLExpressions ==
    {Expression_Number(k) : k \in REPLLiterals} \cup {Identifier(n) : n \in REPLNames}

\* the lines given to evaluate_unbound_statement
REPLScripts ==
    {Script_RunCommand(Identifier(n)) : n \in REPLNames}
        \cup {Script_Var(n, e) : n \in REPLNames, e \in REPLExpressions}
        \cup {Script_Assign(n, Expression_Number(k)) : n \in REPLNames, k \in REPLLiterals}

\* the scripts given to bind_statement
BoundScripts == {Script_Var("x", Expression_Number("1")), Script_RunCommand(Identifier("x"))}

\* history: the names a `var` statement was bound for without an error, and
\* for those whose `var` statement was also evaluated without an error the
\* value stored by the latest `var` or assignment to them that succeeded
NoHistory == [declared |-> {}, assigned |-> EmptyMap]

Declares(script, result) == script.s = "Var" /\ result.ok

Assigns(script, assigned, result) ==
    /\ result.ok
    /\ \/ script.s = "Var"
       \/ script.s = "Assign" /\ script.name \in DOMAIN assigned

\* the statement inside the allocation wrapper
Statement(bound) == IF bound.s = "AllocateVariables" THEN bound.script ELSE bound

InitStateful ==
    /\ heap = InitHeap
    /\ undefinedOnce = {}
    /\ last = [op |-> "none", history |-> NoHistory]
    /\ children = <<>>
    /\ held = NoHandle
    /\ stateful = StatefulEvalTool_new
    /\ threads = NoThreads
    /\ scopes = NoScopes
    /\ mutexes = NoMutexes

\* one call of evaluate_unbound_statement (what invoke_json of the tool does)
EvaluateUnbound(script, environment) ==
    \E b \in {StatefulEvalTool_bind_statement(heap, stateful, script, environment)} :
      \E r \in {StatefulEvalTool_evaluate_bound(heap, b, environment)} :
        /\ stateful' = r.S
        /\ last' = [op |-> "evaluate_unbound", script |-> script,
                    environment |-> environment,
                    ret |-> r.result, trace |-> r.trace,
                    history |->
                        [declared |-> IF Declares(script, b.result)
                                      THEN last.history.declared \cup {script.name}
                                      ELSE last.history.declared,
                         assigned |-> IF Assigns(script, last.history.assigned, r.result)
                                      THEN Insert(last.history.assigned, script.name,
                                                  r.result.val)
                                      ELSE last.history.assigned]]
        /\ UNCHANGED <<heap, undefinedOnce, children, held, threads, scopes, mutexes>>

\* one call of bind_statement; the caller keeps the bound script
Bind(script, environment) ==
    \E b \in {StatefulEvalTool_bind_statement(heap, stateful, script, environment)} :
        /\ stateful' = b.S
        /\ held' = IF b.result.ok THEN b.result.val ELSE held
        /\ last' = [op |-> "bind", script |-> script, environment |-> environment,
                    ret |-> b.result, trace |-> <<>>,
                    history |->
                        [declared |-> IF Declares(script, b.result)
                                      THEN last.history.declared \cup {script.name}
                                      ELSE last.history.declared,
                         assigned |-> last.history.assigned]]
        /\ UNCHANGED <<heap, undefinedOnce, children, threads, scopes, mutexes>>

\* one call of evaluate_statement with the bound script the caller kept
Evaluate(environment) ==
    /\ held # NoHandle
    /\ \E r \in {StatefulEvalTool_evaluate_statement(heap, stateful, held, environment)} :
        /\ stateful' = r.S
        /\ last' = [op |-> "evaluate", script |-> Statement(held),
                    environment |-> environment,
                    ret |-> r.result, trace |-> r.trace,
                    history |->
                        [declared |-> last.history.declared,
                         assigned |-> IF Assigns(Statement(held), last.history.assigned,
                                                 r.result)
                                      THEN Insert(last.history.assigned,
                                                  Statement(held).name, r.result.val)
                                      ELSE last.history.assigned]]
    /\ UNCHANGED <<heap, undefinedOnce, children, held, threads, scopes, mutexes>>

NextStateful ==
    \/ \E script \in REPLScripts : \E environment \in REPLHosts :
          EvaluateUnbound(script, environment)
    \/ \E script \in BoundScripts : \E environment \in REPLHosts :
          Bind(script, environment)
    \/ \E environment \in REPLHosts : Evaluate(environment)

SpecStateful == InitStateful /\ [][NextStateful]_vars

\* what a call of the tool bound to `name` in `environment` returns
ToolResult(environment, name) ==
    call_tool(heap, get_json_tool(heap, environment, name).tool, JNull, environment,
              <<>>).result

\* C12 (stateful REPL persistence): once an invocation evaluating `var x = v`
\* has succeeded, every later invocation evaluating `x` returns the value x
\* was last given, whichever host environment it is passed; and an identifier
\* that no `var` statement has declared resolves to the tool of that name in
\* the host environment passed to the invocation.
C12_Persistence ==
    \A n \in REPLNames :
        (last.op = "evaluate_unbound" /\ last.script = Script_RunCommand(Identifier(n))) =>
            /\ (n \in DOMAIN last.history.assigned) =>
                    last.ret = Ok(last.history.assigned[n])
            /\ (n \notin last.history.declared) =>
                    IF get_json_tool(heap, last.environment, n).ok
                    THEN /\ last.trace = <<ToolCall(n)>>
                         /\ last.ret = ToolResult(last.environment, n)
                    ELSE last.ret = Err(JError("ExpressionDoesNotEvaluateToTool"))

\* C13 (slot reservation): whenever the stateful evaluator reads or writes a
\* variable slot, the activation record already has that slot.
C13_SlotsReserved ==
    (last.op \in {"evaluate_unbound", "evaluate"}) =>
        \A i \in 1..Len(last.trace) :
            (last.trace[i].ev \in {"read", "write"}) => last.trace[i].reserved

(***************************************************************************)
(* Two threads, each invoking the same stateful evaluator once: a call     *)
(* locks `binding` to bind its script, releases it, and then locks         *)
(* `execution` to evaluate what it bound                                   *)
(***************************************************************************)
ThreadIds == {1, 2}

\* a thread about to call evaluate_unbound_statement(script, environment)
Calling(script, environment) ==
    [pc |-> "bind", script |-> script, environment |-> environment]

InitConcurrent ==
    /\ heap = InitHeap
    /\ undefinedOnce = {}
    /\ last = NoOp
    /\ children = <<>>
    /\ held = NoHandle
    /\ stateful = StatefulEvalTool_new
    /\ scopes = NoScopes
    /\ mutexes = NoMutexes
    /\ threads \in [ThreadIds -> {Calling(script, environment) :
                                     script \in REPLScripts, environment \in REPLHosts}]

\* the first half of the call of thread i, under the `binding` mutex; a
\* failure (or a panic) ends the call
ThreadBind(i) ==
    /\ threads[i].pc = "bind"
    /\ \E b \in {StatefulEvalTool_bind_statement(heap, stateful, threads[i].script,
                                                 threads[i].environment)} :
        /\ stateful' = b.S
        /\ threads' = [threads EXCEPT ![i] =
                          IF b.result.ok
                          THEN [pc |-> "evaluate", script |-> threads[i].script,
                                environment |-> threads[i].environment,
                                bound |-> b.result.val]
                          ELSE [pc |-> "done", script |-> threads[i].script,
                                environment |-> threads[i].environment,
                                result |-> b.result]]
        /\ last' = [op |-> "thread_bind", thread |-> i]
    /\ UNCHANGED <<heap, undefinedOnce, children, held, scopes, mutexes>>

\* the second half of the call of thread i, under the `execution` mutex
ThreadEvaluate(i) ==
    /\ threads[i].pc = "evaluate"
    /\ \E r \in {StatefulEvalTool_evaluate_statement(heap, stateful, threads[i].bound,
                                                     threads[i].environment)} :
        /\ stateful' = r.S
        /\ threads' = [threads EXCEPT ![i] =
                          [pc |-> "done", script |-> threads[i].script,
                           environment |-> threads[i].environment,
                           result |-> r.result]]
        /\ last' = [op |-> "thread_evaluate", thread |-> i]
    /\ UNCHANGED <<heap, undefinedOnce, children, held, scopes, mutexes>>

NextConcurrent ==
    \/ \E i \in ThreadIds : ThreadBind(i)
    \/ \E i \in ThreadIds : ThreadEvaluate(i)

SpecConcurrent == InitConcurrent /\ [][NextConcurrent]_vars

\* the call of thread i run alone on the evaluator in state S
Alone(S, i) ==
    StatefulEvalTool_evaluate_unbound_statement(heap, S, threads[i].script,
                                                threads[i].environment)

\* the results and the evaluator are those of the call of thread i followed
\* by the call of thread k, `first` being what the call of thread i came to
SerialOutcome(first, i, k) ==
    /\ threads[i].result = first.result
    /\ threads[k].result = Alone(first.S, k).result
    /\ stateful.binding = Alone(first.S, k).S.binding
    /\ stateful.execution = Alone(first.S, k).S.execution

\* C14 (serialisation): once two concurrent calls on one stateful evaluator
\* have both returned, the results and the final binding table and
\* activation record are those of running the two calls one after the other
\* in some order.
C14_Serialisable ==
    (threads[1].pc = "done" /\ threads[2].pc = "done") =>
        \/ SerialOutcome(Alone(StatefulEvalTool_new, 1), 1, 2)
        \/ SerialOutcome(Alone(StatefulEvalTool_new, 2), 2, 1)

(***************************************************************************)
(* create-evaluator-with-state: the factory of stateful evaluators         *)
(***************************************************************************)
\* a StatefulEvalTool as a tool of an environment
StatefulEvalTool == [kind |-> "stateful-eval", id |-> 0, target |-> "-"]

\* mutant: the evaluator is copied from "stateful-eval" to the requested name
create_evaluator_under_requested_name(h, eval_name, environment) ==
    IF get_json_tool(h, environment, DEFINE_TOOL).ok
    THEN UnitResult(TypedTool_invoke(h, get_json_tool(h, environment, DEFINE_TOOL).tool,
                        [ty |-> "DefineToolInput", source_name |-> "stateful-eval",
                         target_name |-> Some(eval_name)],
                        "unit",
                        StaticEnvironment_from_tool("stateful-eval", StatefulEvalTool),
                        <<>>))
    ELSE [heap |-> h, result |-> Err(TValue(JError("Cannot define tool")))]

create_evaluator_with_state_tool(h, eval_name, environment) ==
    IF get_json_tool(h, environment, DEFINE_TOOL).ok
    THEN UnitResult(TypedTool_invoke(h, get_json_tool(h, environment, DEFINE_TOOL).tool,
                        [ty |-> "DefineToolInput", source_name |-> eval_name,
                         target_name |-> Some("stateful-eval")],
                        "unit",
                        StaticEnvironment_from_tool("stateful-eval", StatefulEvalTool),
                        <<>>))
    ELSE [heap |-> h, result |-> Err(TValue(JError("Cannot define tool")))]

\* the names evaluators are requested under
EvalNames == {"stateful-eval", "repl", "one"}

\* the caller environments: E, and two that provide no define-tool
FactoryEnvironments == {E, EmptyEnvironment, StaticEnvironment_from_tool("one", One)}

InitFactory ==
    /\ heap = InitHeap
    /\ undefinedOnce = {}
    /\ last = NoOp
    /\ children = <<>>
    /\ held = NoHandle
    /\ stateful = StatefulEvalTool_new
    /\ threads = NoThreads
    /\ scopes = NoScopes
    /\ mutexes = NoMutexes

\* E.undefine(n), of a meta-tool or of a name an evaluator may be under
UndefineInE(n) ==
    /\ heap' = undefine(heap, "E", n).heap
    /\ last' = [op |-> "undefine", name |-> n, removed |-> undefine(heap, "E", n).removed]
    /\ UNCHANGED <<undefinedOnce, children, held, stateful, threads, scopes, mutexes>>

\* one invocation of the factory with the name eval_name
CreateEvaluator(eval_name, environment) ==
    \E r \in {create_evaluator_with_state_tool(heap, eval_name, environment)} :
        /\ heap' = r.heap
        /\ last' = [op |-> "create", name |-> eval_name, environment |-> environment,
                    entry |-> heap, ret |-> r.result]
        /\ UNCHANGED <<undefinedOnce, children, held, stateful, threads, scopes, mutexes>>

NextFactory ==
    \/ \E n \in HostNames : \E t \in HostTools(n) : DefineHost(n, t)
    \/ \E n \in MetaNames \cup EvalNames : UndefineInE(n)
    \/ \E eval_name \in EvalNames : \E environment \in FactoryEnvironments :
          CreateEvaluator(eval_name, environment)

SpecFactory == InitFactory /\ [][NextFactory]_vars

\* C15 (create-evaluator-with-state): invoked with a name N in a caller
\* environment that provides define-tool the factory succeeds and afterwards
\* the environment resolves N to a stateful evaluator; without a define-tool
\* it returns an error and leaves the environment unchanged.
C15_Factory ==
    (last.op = "create") =>
        IF get_json_tool(last.entry, last.environment, DEFINE_TOOL).ok
        THEN /\ last.ret.ok
             /\ get_json_tool(heap, last.environment, last.name) = ToolFound(StatefulEvalTool)
        ELSE /\ ~last.ret.ok
             /\ heap = last.entry

(***************************************************************************)
(* Scripts run from scratch: a parse tree is bound against the tools of    *)
(* an environment and evaluated in a new activation record                 *)
(***************************************************************************)
\* evaluate_unbound_statement once the statement has been bound
EvaluatedBound(h, bound, environment, X) ==
    IF bound.result.ok
    THEN evaluate_statement(h, bound.result.val, environment, X)
    ELSE Executed(bound.result, X, <<>>)

evaluate_unbound_statement(h, statement, environment, X) ==
    EvaluatedBound(h, bind_statement(h, statement, VariableBindingEnvironment_new,
                                     environment),
                   environment, X)

\* the environment of the scripts: tools that return 1, return (), and fail
ScriptHost ==
    StaticEnvironment([n \in {"one", "unit", "fail"} |->
                          CASE n = "one" -> One [] n = "unit" -> UnitTool
                            [] OTHER -> RawErrTool])

ScriptHosts == {ScriptHost, EmptyEnvironment}

\* longest sequence of statements
MaxSequence == 3

\* the statements sequences are made of
SequenceAtoms ==
    {Script_RunCommand(Identifier("one")), Script_RunCommand(Identifier("fail")),
     Script_RunCommand(Identifier("unit")), Script_RunCommand(Identifier("x")),
     Script_Var("x", Expression_Number("2")), Script_Assign("x", Identifier("one"))}

SequenceScripts ==
    {Script_Sequence(parts) : parts \in UNION {[1..k -> SequenceAtoms] : k \in 0..MaxSequence}}

\* expressions of every variant
TreeExpressions ==
    {Expression_String("abc"), Expression_Number("1"), Identifier("one"), Identifier("x"),
     Expression_Array(<<Expression_Number("1"), Identifier("one")>>),
     Expression_Tuple(<<Expression_Number("1"), Identifier("fail")>>),
     Expression_Map(<<<<Expression_String("abc"), Expression_Number("1")>>>>),
     Expression_Index(Expression_Array(<<Expression_Number("1")>>), Expression_Number("0")),
     Expression_FieldAccess(Identifier("one"), Identifier("field")),
     Expression_FieldAccess(Identifier("one"), Expression_Number("1")),
     Expression_Apply(Identifier("one"), Expression_Number("1")),
     Expression_Apply(Identifier("one"),
                      Expression_FieldAccess(Expression_Number("1"), Identifier("field")))}

\* statements of every variant
TreeScripts ==
    {Script_RunCommand(e) : e \in TreeExpressions}
        \cup {Script_Var("x", e) : e \in TreeExpressions}
        \cup {Script_Assign("x", e) : e \in TreeExpressions}
        \cup {Script_Let("x", Expression_Number("1")),
              Script_Loop(Script_RunCommand(Identifier("one"))),
              Script_While(Identifier("one"), Script_RunCommand(Identifier("one"))),
              Script_Using(Identifier("one"), Script_RunCommand(Identifier("one"))),
              Script_Def("f", Identifier("x"), Script_RunCommand(Identifier("x"))),
              Script_Sequence(<<Script_Var("x", Expression_Number("1")),
                                Script_Let("y", Expression_Number("1"))>>)}

\* what is indexed: arrays, strings (one with a code point of two bytes),
\* an object, and values that cannot be indexed
IndexTargets ==
    {Expression_Array(<<Expression_String("abc"), Expression_Number("4"),
                        Expression_Number("2")>>),
     Expression_Array(<<>>),
     Expression_String("abc"), Expression_String("h+e-acute"), Expression_String(""),
     Expression_Map(<<<<Expression_String("abc"), Expression_Number("1")>>,
                      <<Expression_String("k"), Expression_Number("2")>>>>),
     Expression_Number("3"), Identifier("unit"), Identifier("one")}

\* what it is indexed by
Indexers ==
    {Expression_Number(n) : n \in {"-1", "0", "1", "2", "3", "4", "0x2", "1.0", "2e0"}}
        \cup {Expression_String("abc"), Expression_String("zz"), Expression_Array(<<>>),
              Identifier("unit")}

IndexScripts ==
    {Script_RunCommand(Expression_Index(lhs, rhs)) : lhs \in IndexTargets, rhs \in Indexers}

\* most entries of a map expression
MaxEntries == 2

\* keys: strings, a number, a tool that returns a number, a tool that fails
MapKeys ==
    {Expression_String("a"), Expression_String("b"), Expression_Number("1"),
     Identifier("one"), Identifier("fail")}

MapValues ==
    {Expression_Number("1"), Expression_Number("2"), Identifier("one"), Identifier("fail")}

MapScripts ==
    {Script_RunCommand(Expression_Map(items)) :
        items \in UNION {[1..k -> MapKeys \X MapValues] : k \in 0..MaxEntries}}

\* the script and the environment evaluate_unbound_statement is called with
ScriptInput(statement, environment) ==
    [op |-> "input", script |-> statement, environment |-> environment]

InitScript ==
    /\ heap = InitHeap
    /\ undefinedOnce = {}
    /\ last \in {ScriptInput(statement, environment) :
                    statement \in SequenceScripts \cup TreeScripts \cup IndexScripts
                                     \cup MapScripts,
                    environment \in ScriptHosts}
    /\ children = <<>>
    /\ held = NoHandle
    /\ stateful = StatefulEvalTool_new
    /\ threads = NoThreads
    /\ scopes = NoScopes
    /\ mutexes = NoMutexes

\* evaluate_unbound_statement(statement, environment, ScriptExecutionEnvironment::new())
EvaluateUnboundStatement ==
    /\ last.op = "input"
    /\ \E r \in {evaluate_unbound_statement(heap, last.script, last.environment,
                                            ScriptExecutionEnvironment_new)} :
          last' = [op |-> "evaluate_unbound_statement", script |-> last.script,
                   environment |-> last.environment, ret |-> r.result,
                   trace |-> r.trace, X |-> r.X]
    /\ UNCHANGED <<heap, undefinedOnce, children, held, stateful, threads, scopes, mutexes>>

NextScript == EvaluateUnboundStatement

SpecScript == InitScript /\ [][NextScript]_vars

\* C16 (no out-of-band failure): binding and then evaluating any parse tree
\* against any environment returns Ok(Value) or Err(Value); it never aborts.
C16_NoAbort ==
    (last.op = "evaluate_unbound_statement") => ~Panicked(last.ret)

\* the bound form of the script that was run
BoundOf(l) ==
    bind_statement(heap, l.script, VariableBindingEnvironment_new, l.environment).result

\* the steps of a bound sequence and the activation record its allocation
\* wrapper (if there is one) starts them in
StepsOf(bound) == Statement(bound).steps

RecordOf(bound) ==
    IF bound.s = "AllocateVariables"
    THEN allocate_variables(ScriptExecutionEnvironment_new, bound.num)
    ELSE ScriptExecutionEnvironment_new

RECURSIVE StepAlone(_, _, _, _)
\* step i evaluated on its own, in the activation record the steps before it
\* leave behind
StepAlone(steps, environment, X, i) ==
    evaluate_statement(heap, steps[i], environment,
                       IF i = 1 THEN X ELSE StepAlone(steps, environment, X, i - 1).X)

\* the first step that fails, 0 if none does
FirstFailed(steps, environment, X) ==
    FirstFailure([i \in 1..Len(steps) |-> StepAlone(steps, environment, X, i).result])

RECURSIVE TraceUpTo(_, _, _, _)
\* what steps 1..i do, in order
TraceUpTo(steps, environment, X, i) ==
    IF i = 0
    THEN <<>>
    ELSE TraceUpTo(steps, environment, X, i - 1) \o StepAlone(steps, environment, X, i).trace

InOrder(l, steps, X, failed) ==
    IF failed = 0
    THEN /\ l.ret = Ok(JArray([i \in 1..Len(steps) |->
                                  StepAlone(steps, l.environment, X, i).result.val]))
         /\ l.trace = TraceUpTo(steps, l.environment, X, Len(steps))
    ELSE /\ l.ret = StepAlone(steps, l.environment, X, failed).result
         /\ l.trace = TraceUpTo(steps, l.environment, X, failed)

\* C17 (sequence evaluation order): evaluating Sequence(s1..sk) evaluates the
\* statements in order; if all succeed the result is the array of their
\* results in that order; if si is the first to fail the result is si's
\* error and nothing of a later statement is done (no tool of it is invoked).
C17_SequenceOrder ==
    (last.op = "evaluate_unbound_statement" /\ last.script.s = "Sequence"
        /\ BoundOf(last).ok) =>
        InOrder(last, StepsOf(BoundOf(last).val), RecordOf(BoundOf(last).val),
                FirstFailed(StepsOf(BoundOf(last).val), last.environment,
                            RecordOf(BoundOf(last).val)))

\* `one; fail; one` stops at the failure: one tool call before it, none after
C17_Witness ==
    /\ last.op = "evaluate_unbound_statement"
    /\ last.script = Script_Sequence(<<Script_RunCommand(Identifier("one")),
                                       Script_RunCommand(Identifier("fail")),
                                       Script_RunCommand(Identifier("one"))>>)
    /\ last.environment = ScriptHost
    /\ last.ret = Err(JError("boom"))
    /\ last.trace = <<ToolCall("one"), ToolCall("fail")>>

\* `var x = 2; x = one; x` gives the three results in order
C17_WitnessOk ==
    /\ last.op = "evaluate_unbound_statement"
    /\ last.script = Script_Sequence(<<Script_Var("x", Expression_Number("2")),
                                       Script_Assign("x", Identifier("one")),
                                       Script_RunCommand(Identifier("x"))>>)
    /\ last.environment = ScriptHost
    /\ last.ret = Ok(JArray(<<JNum(2), JNum(1), JNum(1)>>))

\* what an expression evaluates to when it is run on its own
ValueOf(l, expr) ==
    evaluate_unbound_statement(heap, Script_RunCommand(expr), l.environment,
                               ScriptExecutionEnvironment_new).result

\* the elements of an array, the code points of a string as strings
Elements(v) ==
    IF v.j = "Array" THEN v.items ELSE [i \in 1..Len(chars(v.s)) |-> JStr(chars(v.s)[i])]

IsIndex(v, length) == "float" \notin DOMAIN v /\ v.n >= 0 /\ v.n < length

\* what indexing the value lv by the value rv has to give
IndexResult(lv, rv) ==
    CASE lv.j \in {"Array", "String"} ->
            IF rv.j # "Number"
            THEN Err(JError("ArrayIndexMustBeANumber"))
            ELSE IF IsIndex(rv, Len(Elements(lv)))
                 THEN Ok(Elements(lv)[rv.n + 1])
                 ELSE Err(JError("IndexOutOfBounds"))
      [] lv.j = "Object" ->
            IF rv.j # "String"
            THEN Err(JError("MapIndexMustBeAString"))
            ELSE IF rv.s \in DOMAIN lv.map
                 THEN Ok(lv.map[rv.s])
                 ELSE Err(JError("ObjectValueNotPresent"))
      [] OTHER -> Err(JError("IndexMustApplyToAnArrayOrAMap"))

\* C18 (index semantics): Index(lhs, rhs) gives element i of an array, or the
\* i-th code point of a string as a one-character string, exactly when rhs is
\* a non-negative integer i below the length; any other number gives
\* IndexOutOfBounds (no wrap-around), a non-number ArrayIndexMustBeANumber; an
\* object indexed by a string gives the stored value or ObjectValueNotPresent,
\* by a non-string MapIndexMustBeAString; any other lhs gives
\* IndexMustApplyToAnArrayOrAMap.
C18_Index ==
    (last.op = "evaluate_unbound_statement" /\ last.script \in IndexScripts
        /\ ValueOf(last, last.script.expr.lhs).ok
        /\ ValueOf(last, last.script.expr.rhs).ok) =>
        last.ret = IndexResult(ValueOf(last, last.script.expr.lhs).val,
                               ValueOf(last, last.script.expr.rhs).val)

\* ["abc", 4, 2][-1] is out of bounds
C18_Witness ==
    /\ last.op = "evaluate_unbound_statement"
    /\ last.script =
          Script_RunCommand(Expression_Index(
              Expression_Array(<<Expression_String("abc"), Expression_Number("4"),
                                 Expression_Number("2")>>),
              Expression_Number("-1")))
    /\ last.ret = Err(JError("IndexOutOfBounds"))

\* the second code point of a string whose second code point takes two bytes
C18_WitnessString ==
    /\ last.op = "evaluate_unbound_statement"
    /\ last.script = Script_RunCommand(Expression_Index(Expression_String("h+e-acute"),
                                                        Expression_Number("1")))
    /\ last.ret = Ok(JStr("e-acute"))

\* an expression run on its own: its result and what it did
AloneOf(l, expr) ==
    evaluate_unbound_statement(heap, Script_RunCommand(expr), l.environment,
                               ScriptExecutionEnvironment_new)

\* entry i of a map expression ends the evaluation: its key fails or is not
\* a string, or its value fails
EntryStops(l, items, i) ==
    \/ ~AloneOf(l, items[i][1]).result.ok
    \/ AloneOf(l, items[i][1]).result.val.j # "String"
    \/ ~AloneOf(l, items[i][2]).result.ok

EntryResult(l, items, i) ==
    IF ~AloneOf(l, items[i][1]).result.ok
    THEN AloneOf(l, items[i][1]).result
    ELSE IF AloneOf(l, items[i][1]).result.val.j # "String"
         THEN Err(JError("MapKeysMustEvaluateToAString"))
         ELSE AloneOf(l, items[i][2]).result

\* what visiting entry i does: the key, and the value if the key is a string
EntryTrace(l, items, i) ==
    IF AloneOf(l, items[i][1]).result.ok /\ AloneOf(l, items[i][1]).result.val.j = "String"
    THEN AloneOf(l, items[i][1]).trace \o AloneOf(l, items[i][2]).trace
    ELSE AloneOf(l, items[i][1]).trace

RECURSIVE EntriesTrace(_, _, _)
EntriesTrace(l, items, i) ==
    IF i = 0 THEN <<>> ELSE EntriesTrace(l, items, i - 1) \o EntryTrace(l, items, i)

KeyAt(l, items, i) == AloneOf(l, items[i][1]).result.val.s

\* the last entry whose key is k
LastOccurrence(l, items, k) ==
    CHOOSE i \in 1..Len(items) :
        /\ KeyAt(l, items, i) = k
        /\ \A n \in (i + 1)..Len(items) : KeyAt(l, items, n) # k

ObjectOf(l, items) ==
    JObject([k \in {KeyAt(l, items, i) : i \in 1..Len(items)} |->
                AloneOf(l, items[LastOccurrence(l, items, k)][2]).result.val])

MapInOrder(l, items, stops) ==
    IF stops = {}
    THEN /\ l.ret = Ok(ObjectOf(l, items))
         /\ l.trace = EntriesTrace(l, items, Len(items))
    ELSE \E f \in stops :
            /\ \A i \in stops : f <= i
            /\ l.ret = EntryResult(l, items, f)
            /\ l.trace = EntriesTrace(l, items, f)

\* C19 (map evaluation): the entries of a map expression are visited in
\* input order; the first key that evaluates to a non-String value makes the
\* result MapKeysMustEvaluateToAString and nothing after it is evaluated (as
\* does, with its own error, the first key or value that fails); otherwise the
\* result is the object holding for each distinct key the value of its last
\* occurrence.
C19_Map ==
    (last.op = "evaluate_unbound_statement" /\ last.script \in MapScripts
        /\ BoundOf(last).ok) =>
        MapInOrder(last, last.script.expr.items,
                   {i \in 1..Len(last.script.expr.items) :
                       EntryStops(last, last.script.expr.items, i)})

\* { "a": 1, "a": 2 } is { "a": 2 }
C19_Witness ==
    /\ last.op = "evaluate_unbound_statement"
    /\ last.script = Script_RunCommand(Expression_Map(
                         <<<<Expression_String("a"), Expression_Number("1")>>,
                           <<Expression_String("a"), Expression_Number("2")>>>>))
    /\ last.ret = Ok(JObject([k \in {"a"} |-> JNum(2)]))

\* { 1: one, "a": one } fails at the first key and invokes no tool
C19_WitnessKey ==
    /\ last.op = "evaluate_unbound_statement"
    /\ last.script = Script_RunCommand(Expression_Map(
                         <<<<Expression_Number("1"), Identifier("one")>>,
                           <<Expression_String("a"), Identifier("one")>>>>))
    /\ last.environment = ScriptHost
    /\ last.ret = Err(JError("MapKeysMustEvaluateToAString"))
    /\ last.trace = <<>>

-----------------------------------------------------------------------------
\* The parser (parse_script_tool.rs).  A token is its kind and the text it
\* matched; a symbol's kind is its text.  Every parsing routine takes the
\* tokens that remain and returns its result with the tokens left over.

Symbols ==
    {".", ",", ":", "+", "-", "*", "/", "|", "&", "=", "==", "!=", ">", "<",
     "<=", ">=", "!", "?", "||", "&&", "(", ")", "{", "}", "[", "]"}

\* ScriptLexerToken::symbol
symbol(sym) == sym

LexerMatch(token, matched) == [token |-> token, matched |-> matched]

ScriptToken_new(lexer_token, matched) == [token |-> lexer_token, matched |-> matched]

\* ScriptToken::from_lexer_match
from_lexer_match(lexer_match) ==
    ScriptToken_new(
        CASE lexer_match.token = "let" -> "Let"
          [] lexer_match.token = "var" -> "Var"
          [] lexer_match.token = "if" -> "If"
          [] lexer_match.token = "else" -> "Else"
          [] lexer_match.token = "using" -> "Using"
          [] lexer_match.token = "while" -> "While"
          [] lexer_match.token = "do" -> "Do"
          [] lexer_match.token = "loop" -> "Loop"
          [] lexer_match.token = "for" -> "For"
          [] lexer_match.token = "in" -> "In"
          [] lexer_match.token = "def" -> "Def"
          [] lexer_match.token \in Symbols -> symbol(lexer_match.token)
          [] lexer_match.token \in {"String", "Number", "HexNumber", "Identifier",
                                    "Newline", "Whitespace", "Comment"} -> lexer_match.token
          [] OTHER -> "Unknown",
        lexer_match.matched)

\* Script::If(condition, block, else block); the else block is <<>> or <<block>>
Script_If(expr, body, else_body) ==
    [s |-> "If", expr |-> expr, body |-> body, else_body |-> else_body]

ParseError_new(remaining, message) == [message |-> message, remaining |-> remaining]

Parsed(result, remaining) == [result |-> result, remaining |-> remaining]

ParseFailed(remaining, message) ==
    Parsed(Err(ParseError_new(remaining, message)), remaining)

is_syntax(token) == token.token \notin {"Whitespace", "Comment"}

RECURSIVE lookahead_from(_, _)
lookahead_from(remaining, index) ==
    IF index > Len(remaining)
    THEN 0
    ELSE IF is_syntax(remaining[index])
         THEN index
         ELSE lookahead_from(remaining, index + 1)

\* the position of the next token that is syntax, 0 at the end of the input
lookahead(remaining) == lookahead_from(remaining, 1)

lookahead_is(remaining, token) ==
    IF lookahead(remaining) # 0
    THEN remaining[lookahead(remaining)].token = token
    ELSE token = "EndOfFile"

\* accept(token).is_some(), the token it returns and the input it leaves
accept(remaining, token) ==
    /\ lookahead(remaining) # 0
    /\ remaining[lookahead(remaining)].token = token

accepted(remaining) == remaining[lookahead(remaining)]

after_accept(remaining) ==
    SubSeq(remaining, lookahead(remaining) + 1, Len(remaining))

RECURSIVE skip_newlines(_)
skip_newlines(remaining) ==
    IF accept(remaining, "Newline")
    THEN skip_newlines(after_accept(remaining))
    ELSE remaining

RECURSIVE parse_statement(_)
RECURSIVE parse_expression(_)
RECURSIVE parse_expression_rhs(_, _)
RECURSIVE parse_array_components(_, _, _)
RECURSIVE parse_map_components(_, _)
RECURSIVE parse_statement_block_loop(_, _)

parse_simple_expression(remaining) ==
    IF accept(remaining, "Newline")
    THEN parse_expression(after_accept(remaining))
    ELSE IF accept(remaining, "Identifier")
    THEN Parsed(Ok(Identifier(accepted(remaining).matched)), after_accept(remaining))
    ELSE IF accept(remaining, "Number")
    THEN Parsed(Ok(Expression_Number(accepted(remaining).matched)), after_accept(remaining))
    ELSE IF accept(remaining, "HexNumber")
    THEN Parsed(Ok(Expression_Number(accepted(remaining).matched)), after_accept(remaining))
    ELSE IF accept(remaining, "String")
    THEN Parsed(Ok(Expression_String(accepted(remaining).matched)), after_accept(remaining))
    ELSE ParseFailed(remaining, "Syntax error (was expecting an expression)")

\* the separator after a component of an array, and the rest of the loop
parse_array_separator(remaining, close_bracket, components) ==
    IF ~accept(remaining, symbol(",")) /\ ~lookahead_is(remaining, close_bracket)
    THEN ParseFailed(remaining, "Expected ',' or ']'")
    ELSE parse_array_components(
            skip_newlines(IF accept(remaining, symbol(","))
                          THEN after_accept(remaining)
                          ELSE remaining),
            close_bracket, components)

parse_array_component(close_bracket, components, next_component) ==
    IF ~next_component.result.ok
    THEN next_component
    ELSE parse_array_separator(skip_newlines(next_component.remaining), close_bracket,
                               Append(components, next_component.result.val))

\* the while loop of parse_array_expression
parse_array_components(remaining, close_bracket, components) ==
    IF accept(remaining, close_bracket)
    THEN Parsed(Ok(components), after_accept(remaining))
    ELSE parse_array_component(close_bracket, components, parse_expression(remaining))

parse_array_expression(remaining, open_bracket, close_bracket) ==
    IF ~accept(remaining, open_bracket)
    THEN ParseFailed(remaining, "Not an array")
    ELSE parse_array_components(after_accept(remaining), close_bracket, <<>>)

parse_map_separator(remaining, components) ==
    IF ~accept(remaining, symbol(",")) /\ ~lookahead_is(remaining, symbol("}"))
    THEN ParseFailed(remaining, "Expected ',' or ']'")
    ELSE parse_map_components(
            skip_newlines(IF accept(remaining, symbol(","))
                          THEN after_accept(remaining)
                          ELSE remaining),
            components)

parse_map_value(components, key_component, value_component) ==
    IF ~value_component.result.ok
    THEN value_component
    ELSE parse_map_separator(skip_newlines(value_component.remaining),
                             Append(components, <<key_component, value_component.result.val>>))

parse_map_key(components, key_component) ==
    IF ~key_component.result.ok
    THEN key_component
    ELSE IF ~accept(key_component.remaining, symbol(":"))
         THEN ParseFailed(key_component.remaining, "Expecting ':'")
         ELSE parse_map_value(components, key_component.result.val,
                              parse_expression(after_accept(key_component.remaining)))

\* the while loop of parse_map_expression
parse_map_components(remaining, components) ==
    IF accept(remaining, symbol("}"))
    THEN Parsed(Ok(Expression_Map(components)), after_accept(remaining))
    ELSE parse_map_key(components, parse_expression(remaining))

parse_map_expression(remaining) ==
    IF ~accept(remaining, symbol("{"))
    THEN ParseFailed(remaining, "Not a map")
    ELSE parse_map_components(after_accept(remaining), <<>>)

parse_array_of(array_entries) ==
    IF array_entries.result.ok
    THEN Parsed(Ok(Expression_Array(array_entries.result.val)), array_entries.remaining)
    ELSE array_entries

\* (x) == x, anything else is a tuple
parse_tuple_of(tuple_entries) ==
    IF tuple_entries.result.ok
    THEN Parsed(Ok(IF Len(tuple_entries.result.val) = 1
                   THEN tuple_entries.result.val[1]
                   ELSE Expression_Tuple(tuple_entries.result.val)),
                tuple_entries.remaining)
    ELSE tuple_entries

parse_rhs_of(left_expr) ==
    IF left_expr.result.ok
    THEN parse_expression_rhs(left_expr.remaining, left_expr.result.val)
    ELSE left_expr

parse_expression(remaining) ==
    parse_rhs_of(
        IF lookahead_is(remaining, symbol("["))
        THEN parse_array_of(parse_array_expression(remaining, symbol("["), symbol("]")))
        ELSE IF lookahead_is(remaining, symbol("("))
        THEN parse_tuple_of(parse_array_expression(remaining, symbol("("), symbol(")")))
        ELSE IF lookahead_is(remaining, symbol("{"))
        THEN parse_map_expression(remaining)
        ELSE parse_simple_expression(remaining))

parse_field_access(left_expr, right_expr) ==
    IF right_expr.result.ok
    THEN Parsed(Ok(Expression_FieldAccess(left_expr, right_expr.result.val)),
                right_expr.remaining)
    ELSE right_expr

parse_index(left_expr, right_expr) ==
    IF ~right_expr.result.ok
    THEN right_expr
    ELSE IF accept(right_expr.remaining, symbol("]"))
         THEN Parsed(Ok(Expression_Index(left_expr, right_expr.result.val)),
                     after_accept(right_expr.remaining))
         ELSE ParseFailed(right_expr.remaining, "Missing ']'")

parse_apply(left_expr, parameters) ==
    IF parameters.result.ok
    THEN Parsed(Ok(Expression_Apply(left_expr, parameters.result.val)), parameters.remaining)
    ELSE parameters

parse_expression_rhs(remaining, left_expr) ==
    IF accept(remaining, symbol("."))
    THEN parse_field_access(left_expr, parse_expression(after_accept(remaining)))
    ELSE IF accept(remaining, symbol("["))
    THEN parse_index(left_expr, parse_expression(after_accept(remaining)))
    ELSE IF lookahead_is(remaining, symbol("("))
    THEN parse_apply(left_expr, parse_expression(remaining))
    ELSE Parsed(Ok(left_expr), remaining)

is_apply(expression) == expression.e = "Apply"

\* mutant: whatever follows the argument is left for the next statement
command_must_end_anywhere(command) == command

\* "Command must be followed by a newline"
command_must_end(command) ==
    IF ~command.result.ok
    THEN command
    ELSE IF accept(command.remaining, "Newline")
         THEN Parsed(command.result, after_accept(command.remaining))
         ELSE IF lookahead_is(command.remaining, "EndOfFile")
              THEN command
              ELSE ParseFailed(command.remaining,
                               "Found extra tokens after the end of a command")

parse_command_argument(command_expression, argument_expression) ==
    IF argument_expression.result.ok
    THEN Parsed(Ok(Script_RunCommand(Expression_Apply(command_expression,
                                                      argument_expression.result.val))),
                argument_expression.remaining)
    ELSE argument_expression

parse_command_arguments(command_expression) ==
    IF ~command_expression.result.ok
    THEN command_expression
    ELSE IF accept(command_expression.remaining, "Newline")
    THEN Parsed(Ok(Script_RunCommand(command_expression.result.val)),
                after_accept(command_expression.remaining))
    ELSE IF \/ lookahead_is(command_expression.remaining, symbol("}"))
            \/ lookahead_is(command_expression.remaining, "EndOfFile")
    THEN Parsed(Ok(Script_RunCommand(command_expression.result.val)),
                command_expression.remaining)
    ELSE IF ~is_apply(command_expression.result.val)
    THEN command_must_end(
            parse_command_argument(command_expression.result.val,
                                   parse_expression(command_expression.remaining)))
    ELSE ParseFailed(command_expression.remaining,
                     "Found extra tokens after the end of a command")

parse_command(remaining, initial_identifier) ==
    parse_command_arguments(
        parse_expression_rhs(remaining, Identifier(initial_identifier.matched)))

parse_let_of(identifier, expr) ==
    IF expr.result.ok
    THEN Parsed(Ok(Script_Let(identifier.matched, expr.result.val)), expr.remaining)
    ELSE expr

parse_let(remaining) ==
    IF accept(remaining, "Identifier")
    THEN IF accept(after_accept(remaining), symbol("="))
         THEN parse_let_of(accepted(remaining),
                           parse_expression(after_accept(after_accept(remaining))))
         ELSE ParseFailed(after_accept(remaining), "Was expecting '='")
    ELSE ParseFailed(remaining, "Was expecting an identifier for the new variable")

parse_var_of(identifier, expr) ==
    IF expr.result.ok
    THEN Parsed(Ok(Script_Var(identifier.matched, expr.result.val)), expr.remaining)
    ELSE expr

parse_var(remaining) ==
    IF accept(remaining, "Identifier")
    THEN IF accept(after_accept(remaining), symbol("="))
         THEN parse_var_of(accepted(remaining),
                           parse_expression(after_accept(after_accept(remaining))))
         ELSE ParseFailed(after_accept(remaining), "Was expecting '='")
    ELSE ParseFailed(remaining, "Was expecting an identifier for the new variable")

parse_def(remaining) == Parsed(Panic("not implemented"), remaining)

parse_while(remaining) == Parsed(Panic("not implemented"), remaining)

parse_loop(remaining) == Parsed(Panic("not implemented"), remaining)

parse_for(remaining) == Parsed(Panic("not implemented"), remaining)

parse_statement_block_push(block, statement) ==
    IF statement.result.ok
    THEN parse_statement_block_loop(statement.remaining, Append(block, statement.result.val))
    ELSE statement

\* the while loop of parse_statement_block
parse_statement_block_loop(remaining, block) ==
    IF accept(remaining, symbol("}"))
    THEN Parsed(Ok(IF Len(block) = 1 THEN block[1] ELSE Script_Sequence(block)),
                after_accept(remaining))
    ELSE parse_statement_block_push(block, parse_statement(remaining))

parse_statement_block(remaining) ==
    IF accept(remaining, symbol("{"))
    THEN parse_statement_block_loop(after_accept(remaining), <<>>)
    ELSE ParseFailed(remaining, "Was expecting '{'")

parse_if_else(condition, block, else_block) ==
    IF else_block.result.ok
    THEN Parsed(Ok(Script_If(condition, block, <<else_block.result.val>>)),
                else_block.remaining)
    ELSE else_block

parse_if_block(condition, block) ==
    IF ~block.result.ok
    THEN block
    ELSE IF accept(block.remaining, "Else")
         THEN parse_if_else(condition, block.result.val,
                            parse_statement_block(after_accept(block.remaining)))
         ELSE Parsed(Ok(Script_If(condition, block.result.val, <<>>)), block.remaining)

parse_if_condition(condition) ==
    IF condition.result.ok
    THEN parse_if_block(condition.result.val, parse_statement_block(condition.remaining))
    ELSE condition

parse_if(remaining) == parse_if_condition(parse_expression(remaining))

parse_using_block(using, block) ==
    IF block.result.ok
    THEN Parsed(Ok(Script_Using(using, block.result.val)), block.remaining)
    ELSE block

parse_using_expression(using) ==
    IF using.result.ok
    THEN parse_using_block(using.result.val, parse_statement_block(using.remaining))
    ELSE using

parse_using(remaining) == parse_using_expression(parse_expression(remaining))

parse_assign(identifier, expr) ==
    IF expr.result.ok
    THEN Parsed(Ok(Script_Assign(identifier.matched, expr.result.val)), expr.remaining)
    ELSE expr

parse_statement(remaining) ==
    IF accept(remaining, "Newline") THEN parse_statement(after_accept(remaining))
    ELSE IF accept(remaining, "Let") THEN parse_let(after_accept(remaining))
    ELSE IF accept(remaining, "Var") THEN parse_var(after_accept(remaining))
    ELSE IF accept(remaining, "Def") THEN parse_def(after_accept(remaining))
    ELSE IF accept(remaining, "If") THEN parse_if(after_accept(remaining))
    ELSE IF accept(remaining, "Using") THEN parse_using(after_accept(remaining))
    ELSE IF accept(remaining, "While") THEN parse_while(after_accept(remaining))
    ELSE IF accept(remaining, "Loop") THEN parse_loop(after_accept(remaining))
    ELSE IF accept(remaining, "For") THEN parse_for(after_accept(remaining))
    ELSE IF accept(remaining, "Identifier")
    THEN IF accept(after_accept(remaining), symbol("="))
         THEN parse_assign(accepted(remaining),
                           parse_expression(after_accept(after_accept(remaining))))
         ELSE parse_command(after_accept(remaining), accepted(remaining))
    ELSE ParseFailed(remaining, "Token cannot begin a statement")

RECURSIVE parse_statements(_, _)
parse_next_statement(result, next_statement) ==
    IF next_statement.result.ok
    THEN parse_statements(skip_newlines(next_statement.remaining),
                          Append(result, next_statement.result.val))
    ELSE next_statement.result

\* the while loop of ParseScriptTool::parse
parse_statements(remaining, result) ==
    IF lookahead_is(remaining, "EndOfFile")
    THEN Ok(result)
    ELSE parse_next_statement(result, parse_statement(remaining))

\* ParseScriptTool::parse
parse(input) ==
    parse_statements([i \in 1..Len(input) |-> from_lexer_match(input[i])], <<>>)

-----------------------------------------------------------------------------
\* Token streams that hold a command: what comes before it, its leading
\* expression, its argument (if any) and the tokens that follow.

Word(matched) == LexerMatch("Identifier", matched)

Sym(sym) == LexerMatch(sym, sym)

Keyword(word) == LexerMatch(word, word)

Invisible == <<LexerMatch("Whitespace", " "), LexerMatch("Comment", "// c")>>

NewlineMatch == LexerMatch("Newline", "\n")

\* most tokens after the command
MaxFollow == 2

ParsePrefixes ==
    {<<>>,
     <<Word("g"), NewlineMatch>>,
     <<Keyword("if"), Word("c"), Sym("{")>>,
     <<Keyword("using"), Word("c"), Sym("{")>>}

\* f, f(x), f(), f.g, f[1]
Leadings ==
    {<<Word("f")>>,
     <<Word("f"), Sym("("), Word("x"), Sym(")")>>,
     <<Word("f"), Sym("("), Sym(")")>>,
     <<Word("f"), Sym("."), Word("g")>>,
     <<Word("f"), Sym("["), LexerMatch("Number", "1"), Sym("]")>>}

\* the leading expressions that are an Apply
ApplyLeadings ==
    {<<Word("f"), Sym("("), Word("x"), Sym(")")>>,
     <<Word("f"), Sym("("), Sym(")")>>}

Separators == {<<>>, Invisible}

\* no argument, x, 1, { }, x(1)
Arguments ==
    {<<>>,
     <<Word("x")>>,
     <<LexerMatch("Number", "1")>>,
     <<Sym("{"), Sym("}")>>,
     <<Word("x"), Sym("("), LexerMatch("Number", "1"), Sym(")")>>}

FollowTokens ==
    {Word("y"), Sym("}"), Sym(")"), Sym("="), NewlineMatch,
     LexerMatch("Whitespace", " "), Keyword("def")}

Follows == UNION {[1..k -> FollowTokens] : k \in 0..MaxFollow}

\* most suffixes after a primary
MaxSuffixes == 2

\* the suffixes [ b ] and ( c )
SuffixKinds == {"index", "apply"}

SuffixTokens(kind) ==
    IF kind = "index"
    THEN <<Sym("["), Word("b"), Sym("]")>>
    ELSE <<Sym("("), Word("c"), Sym(")")>>

RECURSIVE ChainTokens(_)
ChainTokens(kinds) ==
    IF kinds = <<>>
    THEN <<Word("a")>>
    ELSE ChainTokens(SubSeq(kinds, 1, Len(kinds) - 1)) \o SuffixTokens(kinds[Len(kinds)])

Chains == UNION {[1..k -> SuffixKinds] : k \in 0..MaxSuffixes}

\* where the expression stands: a statement of its own, the right-hand side of
\* an assignment, an element of an array literal, a value of a map literal
ChainContexts == {"statement", "assignment", "array", "map"}

ContextOpen(context) ==
    CASE context = "statement" -> <<>>
      [] context = "assignment" -> <<Word("x"), Sym("=")>>
      [] context = "array" -> <<Word("x"), Sym("="), Sym("[")>>
      [] context = "map" -> <<Word("x"), Sym("="), Sym("{"), LexerMatch("String", "k"), Sym(":")>>

ContextClose(context) ==
    CASE context = "statement" -> <<>>
      [] context = "assignment" -> <<>>
      [] context = "array" -> <<Sym("]")>>
      [] context = "map" -> <<Sym("}")>>

ParseInput(prefix, leading, separator, argument, follow) ==
    [op |-> "input", prefix |-> prefix, leading |-> leading, argument |-> argument,
     follow |-> follow,
     input |-> prefix \o leading \o separator \o argument \o follow]

InitParse ==
    /\ heap = InitHeap
    /\ undefinedOnce = {}
    /\ last \in {ParseInput(prefix, leading, separator, argument, follow) :
                    prefix \in ParsePrefixes, leading \in Leadings,
                    separator \in Separators, argument \in Arguments,
                    follow \in Follows}
                 \cup {ParseInput(ContextOpen(context), ChainTokens(kinds), <<>>, <<>>,
                                  ContextClose(context)) :
                          context \in ChainContexts, kinds \in Chains}
    /\ children = <<>>
    /\ held = NoHandle
    /\ stateful = StatefulEvalTool_new
    /\ threads = NoThreads
    /\ scopes = NoScopes
    /\ mutexes = NoMutexes

\* ParseScriptTool::parse(input)
Parse ==
    /\ last.op = "input"
    /\ \E r \in {parse(last.input)} :
          last' = [op |-> "parse", prefix |-> last.prefix, leading |-> last.leading,
                   argument |-> last.argument, follow |-> last.follow,
                   input |-> last.input, ret |-> r]
    /\ UNCHANGED <<heap, undefinedOnce, children, held, stateful, threads, scopes, mutexes>>

NextParse == Parse

SpecParse == InitParse /\ [][NextParse]_vars

\* the kinds of the visible tokens of a stretch of input
RECURSIVE Visible(_)
Visible(matches) ==
    IF matches = <<>>
    THEN <<>>
    ELSE IF Head(matches).token \in {"Whitespace", "Comment"}
         THEN Visible(Tail(matches))
         ELSE <<Head(matches).token>> \o Visible(Tail(matches))

\* a visible token that is none of `ends` comes next in `matches`
ExtraToken(matches, ends) ==
    /\ Visible(matches) # <<>>
    /\ Head(Visible(matches)) \notin ends

\* the command has an argument and a token in `ends` does not come next
ExtraAfterArgument(l, ends) ==
    /\ l.leading \notin ApplyLeadings
    /\ l.argument # <<>>
    /\ ExtraToken(l.follow, ends)

\* the command's leading expression is an Apply and a token in `ends` does
\* not come next
ExtraAfterApply(l, ends) ==
    /\ l.leading \in ApplyLeadings
    /\ ExtraToken(l.argument \o l.follow, ends)

\* parsing returned a ParseError
IsParseError(ret) ==
    /\ ~ret.ok
    /\ ~Panicked(ret)
    /\ DOMAIN ret.val = {"message", "remaining"}

ExtraTokensError(ret) ==
    /\ IsParseError(ret)
    /\ ret.val.message = "Found extra tokens after the end of a command"

\* C20 (extra tokens after a command), as stated: a visible token other than
\* Newline that follows the argument of a command, or that follows a leading
\* expression that is already an Apply, makes parsing return a ParseError.
C20_ExtraTokens ==
    (last.op = "parse"
        /\ (ExtraAfterArgument(last, {"Newline"}) \/ ExtraAfterApply(last, {"Newline"})))
        => IsParseError(last.ret)

\* C20 (extra tokens after a command), amended: a visible token other than
\* Newline that follows the argument of a command, or a visible token other
\* than Newline and `}` that follows a leading expression that is already an
\* Apply, makes parsing return a ParseError.
C20_ExtraTokensAmended ==
    (last.op = "parse"
        /\ (ExtraAfterArgument(last, {"Newline"}) \/ ExtraAfterApply(last, {"Newline", "}"})))
        => IsParseError(last.ret)

\* `f x y` is a parse error
C20_Witness ==
    /\ last.op = "parse"
    /\ last.input = <<Word("f"), Word("x"), Word("y")>>
    /\ ExtraTokensError(last.ret)
    /\ last.ret.val.remaining = <<from_lexer_match(Word("y"))>>

\* `f(x) y` is a parse error
C20_WitnessApply ==
    /\ last.op = "parse"
    /\ last.input = <<Word("f"), Sym("("), Word("x"), Sym(")")>> \o Invisible \o <<Word("y")>>
    /\ ExtraTokensError(last.ret)

\* `using c { f(x) }` is a tree
C20_WitnessBlock ==
    /\ last.op = "parse"
    /\ last.input = <<Keyword("using"), Word("c"), Sym("{"),
                      Word("f"), Sym("("), Word("x"), Sym(")"), Sym("}")>>
    /\ last.ret = Ok(<<Script_Using(Identifier("c"),
                          Script_RunCommand(Expression_Apply(Identifier("f"),
                                                             Identifier("x"))))>>)

\* the expression a chain of suffixes stands for: each suffix wraps the
\* expression built so far
RECURSIVE ChainExpression(_)
ChainExpression(kinds) ==
    IF kinds = <<>>
    THEN Identifier("a")
    ELSE IF kinds[Len(kinds)] = "index"
         THEN Expression_Index(ChainExpression(SubSeq(kinds, 1, Len(kinds) - 1)),
                               Identifier("b"))
         ELSE Expression_Apply(ChainExpression(SubSeq(kinds, 1, Len(kinds) - 1)),
                               Identifier("c"))

ChainTree(context, expression) ==
    CASE context = "statement" -> Script_RunCommand(expression)
      [] context = "assignment" -> Script_Assign("x", expression)
      [] context = "array" -> Script_Assign("x", Expression_Array(<<expression>>))
      [] context = "map" ->
            Script_Assign("x", Expression_Map(<<<<Expression_String("k"), expression>>>>))

ChainInput(context, kinds) ==
    ContextOpen(context) \o ChainTokens(kinds) \o ContextClose(context)

\* C21 (expression suffix chains): a primary followed by index and apply
\* suffixes parses as one expression in which each suffix wraps the
\* expression built so far (a [ b ] [ c ] is Index(Index(a, b), c), a [ b ] ( c )
\* is Apply(Index(a, b), c)), as a statement and inside an array or map literal.
C21_SuffixChains ==
    \A context \in ChainContexts, kinds \in Chains :
        (last.op = "parse" /\ last.input = ChainInput(context, kinds))
            => last.ret = Ok(<<ChainTree(context, ChainExpression(kinds))>>)

\* the same with at most one suffix, which the parser does read as the claim says
C21_SingleSuffix ==
    \A context \in ChainContexts, kinds \in Chains :
        (last.op = "parse" /\ last.input = ChainInput(context, kinds) /\ Len(kinds) <= 1)
            => last.ret = Ok(<<ChainTree(context, ChainExpression(kinds))>>)

-----------------------------------------------------------------------------
\* Binding environments (binding_environment.rs): a variable table, a table
\* backed by an external environment, a child scope over a base, and the
\* combination of a primary with a secondary.  A wrapper borrows what it
\* wraps, so the environment that can be used is the outermost one.

ToolBindingEnvironment(variable_environment, environment) ==
    [b |-> "tool", variable_environment |-> variable_environment,
     environment |-> environment]

ChildBindingEnvironment(base_environment, bindings) ==
    [b |-> "child", base_environment |-> base_environment, bindings |-> bindings]

\* BindingEnvironment::from_environment
from_environment(environment) ==
    ToolBindingEnvironment(VariableBindingEnvironment_new, environment)

\* BindingEnvironment::combine
combine(primary_environment, secondary_environment) ==
    [b |-> "pair", primary |-> primary_environment, secondary |-> secondary_environment]

create_sub_environment(env) == ChildBindingEnvironment(env, <<>>)

\* which implementation of the trait an environment is
KindOf(env) == IF "next_to_allocate" \in DOMAIN env THEN "variable" ELSE env.b

BindingResult_Variable(slot) == [kind |-> "Variable", slot |-> slot]

BindingResult_Tool(tool) == [kind |-> "Tool", tool |-> tool]

BindingResult_Error == [kind |-> "Error"]

\* a lookup that asks the fallback first
FoundOr_prefers_fallback(found, otherwise) ==
    IF otherwise.kind = "Error" THEN found ELSE otherwise

\* `match found { Error(_) => otherwise, found => found }`
FoundOr(found, otherwise) == IF found.kind = "Error" THEN otherwise ELSE found

\* environment.get_json_tool(name) as a binding result
ToolBindingEnvironment_get(tool) ==
    IF tool.ok THEN BindingResult_Tool(tool.tool) ELSE BindingResult_Error

RECURSIVE BindingEnvironment_lookup(_, _, _)
BindingEnvironment_lookup(h, env, name) ==
    CASE KindOf(env) = "variable" ->
            IF name \in DOMAIN env.bindings
            THEN BindingResult_Variable(env.bindings[name])
            ELSE BindingResult_Error
      [] KindOf(env) = "tool" ->
            FoundOr(BindingEnvironment_lookup(h, env.variable_environment, name),
                    ToolBindingEnvironment_get(get_json_tool(h, env.environment, name)))
      [] KindOf(env) = "child" ->
            IF name \in DOMAIN env.bindings
            THEN BindingResult_Variable(env.bindings[name])
            ELSE BindingEnvironment_lookup(h, env.base_environment, name)
      [] KindOf(env) = "pair" ->
            FoundOr(BindingEnvironment_lookup(h, env.primary, name),
                    BindingEnvironment_lookup(h, env.secondary, name))

\* an allocation made by the environment `env` delegates to, seen from env
Delegated(env, field, inner) ==
    [env |-> [env EXCEPT ![field] = inner.env], allocation |-> inner.allocation]

RECURSIVE BindingEnvironment_allocate_location(_)
BindingEnvironment_allocate_location(env) ==
    CASE KindOf(env) = "variable" ->
            [env |-> [env EXCEPT !.next_to_allocate = env.next_to_allocate + 1],
             allocation |-> env.next_to_allocate]
      [] KindOf(env) = "tool" ->
            Delegated(env, "variable_environment",
                      BindingEnvironment_allocate_location(env.variable_environment))
      [] KindOf(env) = "child" ->
            Delegated(env, "base_environment",
                      BindingEnvironment_allocate_location(env.base_environment))
      [] KindOf(env) = "pair" ->
            Delegated(env, "primary", BindingEnvironment_allocate_location(env.primary))

\* mutant: the child names the location but the root does not advance
ChildBindingEnvironment_allocate_without_advancing(env, name, located) ==
    [env |-> [env EXCEPT !.bindings = Insert(env.bindings, name, located.allocation)],
     result |-> Ok(located.allocation)]

\* ChildBindingEnvironment::allocate_variable once the name is known to be
\* free, `located` being what self.allocate_location() came to
ChildBindingEnvironment_allocate(env, name, located) ==
    [env |-> [located.env EXCEPT !.bindings = Insert(env.bindings, name, located.allocation)],
     result |-> Ok(located.allocation)]

\* an allocate_variable made by the environment `env` delegates to
DelegatedVariable(env, field, inner) ==
    [env |-> [env EXCEPT ![field] = inner.env], result |-> inner.result]

VariableBindingEnvironment_allocate_variable(env, allocated) ==
    [env |-> allocated.B, result |-> allocated.result]

RECURSIVE BindingEnvironment_allocate_variable(_, _)
BindingEnvironment_allocate_variable(env, name) ==
    CASE KindOf(env) = "variable" ->
            VariableBindingEnvironment_allocate_variable(env, allocate_variable(env, name))
      [] KindOf(env) = "tool" ->
            DelegatedVariable(env, "variable_environment",
                BindingEnvironment_allocate_variable(env.variable_environment, name))
      [] KindOf(env) = "child" ->
            IF name \in DOMAIN env.bindings
            THEN [env |-> env, result |-> Err("AlreadyInUse")]
            ELSE ChildBindingEnvironment_allocate(env, name,
                                                  BindingEnvironment_allocate_location(env))
      [] KindOf(env) = "pair" ->
            DelegatedVariable(env, "primary",
                              BindingEnvironment_allocate_variable(env.primary, name))

\* cmp::max
max(a, b) == IF a >= b THEN a ELSE b

RECURSIVE get_number_of_variables(_)
get_number_of_variables(env) ==
    CASE KindOf(env) = "variable" -> env.next_to_allocate
      [] KindOf(env) = "tool" -> get_number_of_variables(env.variable_environment)
      [] KindOf(env) = "child" -> get_number_of_variables(env.base_environment)
      [] KindOf(env) = "pair" ->
            max(get_number_of_variables(env.primary), get_number_of_variables(env.secondary))

-----------------------------------------------------------------------------
\* A binder at work on one binding environment: it opens and ends child
\* scopes, combines the environment with a secondary, allocates and looks up.

\* most wrappers (child scopes and combinations) around the root
MaxDepth == 2

\* most slots of the root
MaxSlots == 3

ScopeNames == {"x", "t"}

\* a variable table that declares t
DeclaresT == allocate_variable(VariableBindingEnvironment_new, "t").B

Roots ==
    {VariableBindingEnvironment_new, from_environment(HostWithT),
     from_environment(EmptyEnvironment)}

Secondaries == {from_environment(HostWithT), from_environment(EmptyEnvironment), DeclaresT}

RECURSIVE Depth(_)
Depth(env) ==
    CASE KindOf(env) = "child" -> 1 + Depth(env.base_environment)
      [] KindOf(env) = "pair" -> 1 + Depth(env.primary)
      [] OTHER -> 0

\* what a wrapper allocates in: the base of a child, the primary of a pair
Enclosing(env) == IF KindOf(env) = "child" THEN env.base_environment ELSE env.primary

\* the slot count of the root every allocation of env ends in
RECURSIVE RootCount(_)
RootCount(env) ==
    CASE KindOf(env) = "variable" -> env.next_to_allocate
      [] KindOf(env) = "tool" -> env.variable_environment.next_to_allocate
      [] OTHER -> RootCount(Enclosing(env))

ScopeOp(op, name, ret, before, allocated) ==
    [op |-> op, name |-> name, ret |-> ret, before |-> before, allocated |-> allocated]

InitScopes ==
    /\ heap = InitHeap
    /\ undefinedOnce = {}
    /\ scopes \in Roots
    /\ mutexes = NoMutexes
    /\ last = ScopeOp("new", "", Ok(0), scopes, {})
    /\ children = <<>>
    /\ held = NoHandle
    /\ stateful = StatefulEvalTool_new
    /\ threads = NoThreads

CreateSubEnvironment ==
    /\ Depth(scopes) < MaxDepth
    /\ scopes' = create_sub_environment(scopes)
    /\ last' = ScopeOp("create_sub_environment", "", Ok(0), scopes, last.allocated)
    /\ UNCHANGED <<heap, undefinedOnce, children, held, stateful, threads, mutexes>>

Combine(secondary) ==
    /\ Depth(scopes) < MaxDepth
    /\ scopes' = combine(scopes, secondary)
    /\ last' = ScopeOp("combine", "", Ok(0), scopes, last.allocated)
    /\ UNCHANGED <<heap, undefinedOnce, children, held, stateful, threads, mutexes>>

\* the child scope or the combination is dropped
EndScope ==
    /\ KindOf(scopes) \in {"child", "pair"}
    /\ scopes' = Enclosing(scopes)
    /\ last' = ScopeOp("end", "", Ok(0), scopes, last.allocated)
    /\ UNCHANGED <<heap, undefinedOnce, children, held, stateful, threads, mutexes>>

AllocateLocation ==
    /\ RootCount(scopes) < MaxSlots
    /\ \E r \in {BindingEnvironment_allocate_location(scopes)} :
        /\ scopes' = r.env
        /\ last' = ScopeOp("allocate_location", "", Ok(r.allocation), scopes,
                           last.allocated \cup {r.allocation})
    /\ UNCHANGED <<heap, undefinedOnce, children, held, stateful, threads, mutexes>>

AllocateVariable(name) ==
    /\ RootCount(scopes) < MaxSlots
    /\ \E r \in {BindingEnvironment_allocate_variable(scopes, name)} :
        /\ scopes' = r.env
        /\ last' = ScopeOp("allocate_variable", name, r.result, scopes,
                           IF r.result.ok
                           THEN last.allocated \cup {r.result.val}
                           ELSE last.allocated)
    /\ UNCHANGED <<heap, undefinedOnce, children, held, stateful, threads, mutexes>>

Lookup(name) ==
    /\ last' = ScopeOp("lookup", name, BindingEnvironment_lookup(heap, scopes, name),
                       scopes, last.allocated)
    /\ UNCHANGED <<heap, undefinedOnce, children, held, stateful, threads, scopes, mutexes>>

\* the `var` statement that declares name
DeclarationOf(name) == Script_Var(name, Expression_Number("1"))

\* an allocation that never refuses a name a scope already has
bind_variable_name_in_again(script, allocated) ==
    [env |-> allocated.env,
     result |-> IF allocated.result.ok THEN allocated.result ELSE Ok(RootCount(allocated.env))]

\* bind_variable_name on a binding environment of any kind, `allocated` being
\* what its allocate_variable did
bind_variable_name_in(script, allocated) ==
    [env |-> allocated.env,
     result |-> IF allocated.result.ok
                THEN allocated.result
                ELSE Err(generate_statement_error("VariableNameAlreadyInUse", script))]

\* Script::Var of bind_statement_without_allocation, the expression a literal
\* (bind_expression does not consult the environment for it)
bind_var_in(h, script, slot) ==
    [env |-> slot.env,
     result |-> IF slot.result.ok
                THEN BindAssignment("Var", script.name, slot.result,
                                    bind_expression(h, VariableBindingEnvironment_new,
                                                    EmptyEnvironment, script.expr),
                                    slot.env).result
                ELSE slot.result]

\* bind_statement on a binding environment of any kind
bind_statement_in(initial_variable_count, bound) ==
    [env |-> bound.env,
     result |-> IF bound.result.ok
                    /\ initial_variable_count < get_number_of_variables(bound.env)
                THEN Ok(BoundScript_AllocateVariables(get_number_of_variables(bound.env),
                                                      bound.result.val))
                ELSE bound.result]

\* bind_statement of `var name = 1` in the environment held
BindDeclaration(name) ==
    /\ RootCount(scopes) < MaxSlots
    /\ \E r \in {bind_statement_in(
                    get_number_of_variables(scopes),
                    bind_var_in(heap, DeclarationOf(name),
                        bind_variable_name_in(DeclarationOf(name),
                            BindingEnvironment_allocate_variable(scopes, name))))} :
        /\ scopes' = r.env
        /\ last' = ScopeOp("bind_statement", name, r.result, scopes,
                           IF r.result.ok
                           THEN last.allocated \cup {RootCount(scopes)}
                           ELSE last.allocated)
    /\ UNCHANGED <<heap, undefinedOnce, children, held, stateful, threads, mutexes>>

NextScopes ==
    \/ \E name \in ScopeNames : BindDeclaration(name)
    \/ CreateSubEnvironment
    \/ \E secondary \in Secondaries : Combine(secondary)
    \/ EndScope
    \/ AllocateLocation
    \/ \E name \in ScopeNames : AllocateVariable(name)
    \/ \E name \in ScopeNames : Lookup(name)

SpecScopes == InitScopes /\ [][NextScopes]_vars

\* the environments from the root outward, the one in use last
RECURSIVE ScopeChain(_)
ScopeChain(env) ==
    IF KindOf(env) \in {"child", "pair"}
    THEN Append(ScopeChain(Enclosing(env)), env)
    ELSE <<env>>

Min(a, b) == IF a <= b THEN a ELSE b

\* the place in the chain of the scope whose name table an allocation in env
\* writes: env itself, or under a combination its primary's
RECURSIVE OwnerIndex(_)
OwnerIndex(env) ==
    IF KindOf(env) = "pair"
    THEN OwnerIndex(env.primary)
    ELSE Len(ScopeChain(env))

\* every name that one of the first `levels` environments of the chain binds
\* to a variable is bound to the same slot there afterwards
OuterSlotsKept(before, after, levels) ==
    \A i \in 1..levels :
        \A name \in ScopeNames :
            BindingEnvironment_lookup(heap, ScopeChain(before)[i], name).kind = "Variable" =>
                BindingEnvironment_lookup(heap, ScopeChain(after)[i], name)
                    = BindingEnvironment_lookup(heap, ScopeChain(before)[i], name)

\* C22 (shadowing is by slot): an allocation, in a child scope too and also
\* of a name an enclosing scope declares, returns a slot that no earlier
\* allocation on the same root returned; every name an enclosing scope binds to
\* a variable stays bound to the same slot there, during and after the child
\* scope; and the root's slot count never goes down.
C22_ShadowingBySlot ==
    (last.op \in {"create_sub_environment", "combine", "end", "allocate_location",
                  "allocate_variable", "lookup"}) =>
        /\ (last.op \in {"allocate_location", "allocate_variable"} /\ last.ret.ok) =>
              \A earlier \in last.allocated \ {last.ret.val} : earlier < last.ret.val
        /\ (last.op \in {"allocate_location", "allocate_variable"} /\ last.ret.ok) =>
              last.ret.val = RootCount(last.before)
        /\ OuterSlotsKept(last.before, scopes,
                          IF last.op \in {"allocate_location", "allocate_variable"}
                          THEN OwnerIndex(last.before) - 1
                          ELSE Min(Len(ScopeChain(last.before)), Len(ScopeChain(scopes))))
        /\ RootCount(scopes) >= RootCount(last.before)
        /\ \A slot \in last.allocated : slot < RootCount(scopes)

\* a child scope declared t, which the enclosing scope declares too, on a new
\* slot; the child scope has ended and t is the outer slot again
C22_Witness ==
    /\ last.op = "lookup"
    /\ last.name = "t"
    /\ KindOf(scopes) = "tool"
    /\ last.ret = BindingResult_Variable(0)
    /\ last.allocated = {0, 1, 2}
    /\ scopes.variable_environment.bindings = [n \in {"t"} |-> 0]

\* the allocation of t in the child scope, t being slot 0 outside
C22_WitnessShadow ==
    /\ last.op = "allocate_variable"
    /\ last.name = "t"
    /\ KindOf(scopes) = "child"
    /\ BindingEnvironment_lookup(heap, scopes.base_environment, "t") = BindingResult_Variable(0)
    /\ last.ret = Ok(1)
    /\ BindingEnvironment_lookup(heap, scopes, "t") = BindingResult_Variable(1)

\* the name tables of an environment, innermost first and walking outward
RECURSIVE NameTables(_)
NameTables(env) ==
    CASE KindOf(env) = "variable" -> <<env.bindings>>
      [] KindOf(env) = "tool" -> <<env.variable_environment.bindings>>
      [] KindOf(env) = "child" -> <<env.bindings>> \o NameTables(env.base_environment)
      [] KindOf(env) = "pair" -> NameTables(env.primary) \o NameTables(env.secondary)

\* the external environments of an environment, in the same order
RECURSIVE Externals(_)
Externals(env) ==
    CASE KindOf(env) = "variable" -> <<>>
      [] KindOf(env) = "tool" -> <<env.environment>>
      [] KindOf(env) = "child" -> Externals(env.base_environment)
      [] KindOf(env) = "pair" -> Externals(env.primary) \o Externals(env.secondary)

\* the first of a sequence of tables that has the name, 0 if none
FirstDeclaring(tables, name) ==
    IF \E i \in 1..Len(tables) : name \in DOMAIN tables[i]
    THEN CHOOSE i \in 1..Len(tables) :
            /\ name \in DOMAIN tables[i]
            /\ \A k \in 1..(i - 1) : name \notin DOMAIN tables[k]
    ELSE 0

\* the first of a sequence of environments whose get finds the name, 0 if none
FirstProviding(h, environments, name) ==
    IF \E i \in 1..Len(environments) : get_json_tool(h, environments[i], name).ok
    THEN CHOOSE i \in 1..Len(environments) :
            /\ get_json_tool(h, environments[i], name).ok
            /\ \A k \in 1..(i - 1) : ~get_json_tool(h, environments[k], name).ok
    ELSE 0

\* every scope before any external environment
VariablesFirst(h, env, name) ==
    IF FirstDeclaring(NameTables(env), name) # 0
    THEN BindingResult_Variable(NameTables(env)[FirstDeclaring(NameTables(env), name)][name])
    ELSE IF FirstProviding(h, Externals(env), name) # 0
         THEN BindingResult_Tool(
                get_json_tool(h, Externals(env)[FirstProviding(h, Externals(env), name)],
                              name).tool)
         ELSE BindingResult_Error

\* the name tables and external environments of an environment in the order
\* they are walked when a combination walks its primary completely, the
\* primary's external environment included, before its secondary
RECURSIVE Layers(_)
Layers(env) ==
    CASE KindOf(env) = "variable" -> <<[table |-> env.bindings]>>
      [] KindOf(env) = "tool" ->
            <<[table |-> env.variable_environment.bindings], [external |-> env.environment]>>
      [] KindOf(env) = "child" -> <<[table |-> env.bindings]>> \o Layers(env.base_environment)
      [] KindOf(env) = "pair" -> Layers(env.primary) \o Layers(env.secondary)

LayerAnswers(h, layer, name) ==
    IF "table" \in DOMAIN layer
    THEN name \in DOMAIN layer.table
    ELSE get_json_tool(h, layer.external, name).ok

LayerAnswer(h, layer, name) ==
    IF "table" \in DOMAIN layer
    THEN BindingResult_Variable(layer.table[name])
    ELSE BindingResult_Tool(get_json_tool(h, layer.external, name).tool)

PrimaryFirst(h, env, name) ==
    IF \E i \in 1..Len(Layers(env)) : LayerAnswers(h, Layers(env)[i], name)
    THEN LayerAnswer(h,
            Layers(env)[CHOOSE i \in 1..Len(Layers(env)) :
                            /\ LayerAnswers(h, Layers(env)[i], name)
                            /\ \A k \in 1..(i - 1) : ~LayerAnswers(h, Layers(env)[k], name)],
            name)
    ELSE BindingResult_Error

\* C23 (lookup precedence), as stated: lookup(name) in any composition of
\* binding environments returns the slot of the innermost scope that declares
\* name, walking outward; only if no scope declares it the external
\* environment's tool; NotFound only if that fails too.
C23_LookupPrecedence ==
    (last.op = "lookup") => last.ret = VariablesFirst(heap, scopes, last.name)

\* C23 (lookup precedence), amended: lookup(name) returns what the first
\* scope or external environment that knows name holds, walking outward from
\* the innermost scope, a table before its own external environment and a
\* combination's primary completely (its external environment included)
\* before its secondary; NotFound only if none knows name.
C23_LookupPrecedenceAmended ==
    (last.op = "lookup") => last.ret = PrimaryFirst(heap, scopes, last.name)

\* t is a variable and a tool of the external environment: the variable wins
C23_Witness ==
    /\ last.op = "lookup"
    /\ last.name = "t"
    /\ KindOf(scopes) = "child"
    /\ KindOf(scopes.base_environment) = "tool"
    /\ scopes.base_environment.environment = HostWithT
    /\ "t" \notin DOMAIN scopes.bindings
    /\ "t" \in DOMAIN scopes.base_environment.variable_environment.bindings
    /\ last.ret = BindingResult_Variable(scopes.base_environment.variable_environment.bindings["t"])

\* t is a tool of the primary's environment and a variable of the secondary:
\* the tool wins
C23_WitnessPrimaryTool ==
    /\ last.op = "lookup"
    /\ last.name = "t"
    /\ scopes = combine(from_environment(HostWithT), DeclaresT)
    /\ last.ret = BindingResult_Tool(One)

\* the name table an allocation in env tests and writes: env's own, or under a
\* combination its primary's
RECURSIVE OwnTable(_)
OwnTable(env) ==
    CASE KindOf(env) = "variable" -> env.bindings
      [] KindOf(env) = "tool" -> env.variable_environment.bindings
      [] KindOf(env) = "child" -> env.bindings
      [] KindOf(env) = "pair" -> OwnTable(env.primary)

\* C26 (duplicate declaration): allocate_variable(name) on a scope whose own
\* table already has name returns AlreadyInUse, and binding `var name = ...`
\* there gives an error object with error VariableNameAlreadyInUse that carries
\* the failing statement; in both cases the slot count and every mapping stay
\* as they were.
C26_DuplicateDeclaration ==
    (last.op \in {"allocate_variable", "bind_statement"}
        /\ last.name \in DOMAIN OwnTable(last.before)) =>
        /\ last.op = "allocate_variable" => last.ret = Err("AlreadyInUse")
        /\ last.op = "bind_statement" =>
              last.ret = Err([j |-> "Object", error |-> "VariableNameAlreadyInUse",
                              failed_statement |-> DeclarationOf(last.name)])
        /\ scopes = last.before
        /\ get_number_of_variables(scopes) = get_number_of_variables(last.before)
        /\ \A name \in ScopeNames :
              BindingEnvironment_lookup(heap, scopes, name)
                  = BindingEnvironment_lookup(heap, last.before, name)

\* `var t = 1` bound where t is declared already
C26_Witness ==
    /\ last.op = "bind_statement"
    /\ last.name = "t"
    /\ "t" \in DOMAIN OwnTable(last.before)
    /\ ~last.ret.ok
    /\ RootCount(scopes) > 0

\* allocate_variable("x") in a child scope that declared x itself
C26_WitnessChild ==
    /\ last.op = "allocate_variable"
    /\ last.name = "x"
    /\ KindOf(last.before) = "child"
    /\ "x" \in DOMAIN last.before.bindings
    /\ last.ret = Err("AlreadyInUse")

\* allocate_variables(num_variables) on the activation record X keeps every
\* slot X has and appends Null slots until there are num_variables of them
AllocationExtends(X, num_variables) ==
    /\ Len(allocate_variables(X, num_variables)) = max(Len(X), num_variables)
    /\ \A i \in 1..Len(X) : allocate_variables(X, num_variables)[i] = X[i]
    /\ \A i \in (Len(X) + 1)..num_variables : allocate_variables(X, num_variables)[i] = JNull

\* the slots a statement's evaluation wrote
Written(trace) == {trace[i].slot : i \in {k \in 1..Len(trace) : trace[k].ev = "write"}}

\* C25 (the stateful evaluator never shrinks): over every invocation of one
\* stateful evaluator the binding table's slot count and the activation
\* record's length do not decrease, no declared name is removed or moved to
\* another slot, and AllocateVariables(n) appends Null slots up to n and
\* keeps the value of every slot that existed (a slot changes only where the
\* statement itself stores into it).
C25_NeverShrinks ==
    [][/\ stateful'.binding.next_to_allocate >= stateful.binding.next_to_allocate
       /\ Len(stateful'.execution) >= Len(stateful.execution)
       /\ \A name \in DOMAIN stateful.binding.bindings :
            /\ name \in DOMAIN stateful'.binding.bindings
            /\ stateful'.binding.bindings[name] = stateful.binding.bindings[name]
       /\ \A n \in 0..(Cardinality(REPLNames) + 1) : AllocationExtends(stateful.execution, n)
       /\ \A i \in 1..Len(stateful.execution) :
            (i - 1) \notin Written(last'.trace) =>
                stateful'.execution[i] = stateful.execution[i]
       /\ \A i \in (Len(stateful.execution) + 1)..Len(stateful'.execution) :
            (i - 1) \notin Written(last'.trace) => stateful'.execution[i] = JNull
      ]_vars

\* a second variable has been declared and evaluated: the record grew from one
\* slot to two and the first slot kept its value
C25_Witness ==
    /\ last.op = "evaluate_unbound"
    /\ last.script.s = "Var"
    /\ last.ret.ok
    /\ stateful.binding.next_to_allocate = 2
    /\ Len(stateful.execution) = 2
    /\ stateful.binding.bindings[last.script.name] = 1
    /\ stateful.execution[1] # JNull

\* C30 (a failed binding leaves the session unchanged): when binding a
\* statement on the stateful evaluator returns an error, the persistent
\* binding table is as it was before the call: no name was declared and the
\* slot count is the same.
C30_FailedBindingUnchanged ==
    [][(/\ last'.op \in {"bind", "evaluate_unbound"}
        /\ ~StatefulEvalTool_bind_statement(heap, stateful, last'.script,
                                            last'.environment).result.ok
        /\ ~Panicked(StatefulEvalTool_bind_statement(heap, stateful, last'.script,
                                                     last'.environment).result))
        => stateful'.binding = stateful.binding
      ]_vars

(***************************************************************************)
(* Calls of one stateful evaluator with its two mutexes made explicit: a   *)
(* call locks `binding`, binds and unlocks; then it locks `execution` and  *)
(* holds it until the evaluation is over, the calls of the tools the       *)
(* script applies included. A script may apply the evaluator itself, which *)
(* every clone of the tool shares its two Arcs with.                       *)
(***************************************************************************)
\* how deep a script applies the evaluator it runs in
MaxNesting == 1

Callers == {1, 2}

\* `evaluator <script>`: a command that applies the evaluator to the script
Reenter(script) == [s |-> "Reenter", script |-> script]

\* the scripts a caller passes to invoke_json
RECURSIVE ReentrantScripts(_)
ReentrantScripts(nesting) ==
    IF nesting = 0
    THEN BoundScripts
    ELSE ReentrantScripts(nesting - 1)
            \cup {Reenter(script) : script \in ReentrantScripts(nesting - 1)}

\* a call of evaluate_unbound_statement that has not started yet
Frame(script, environment) == [pc |-> "bind", script |-> script, environment |-> environment]

\* a thread and the calls it is in, the innermost last
Caller(script) == [stack |-> <<Frame(script, HostWithT)>>, result |-> "none"]

InitReentrant ==
    /\ heap = InitHeap
    /\ undefinedOnce = {}
    /\ last = NoOp
    /\ children = <<>>
    /\ held = NoHandle
    /\ stateful = StatefulEvalTool_new
    /\ scopes = NoScopes
    /\ mutexes = NoMutexes
    /\ threads \in [Callers -> {Caller(script) : script \in ReentrantScripts(MaxNesting)}]

\* the call thread i is in
Top(i) == threads[i].stack[Len(threads[i].stack)]

At(i, pc) == threads[i].result = "none" /\ Top(i).pc = pc

\* thread i goes on in its innermost call
Continue(i, frame) ==
    [threads EXCEPT ![i].stack[Len(threads[i].stack)] = frame]

\* the innermost call of thread i returns to its caller, which was applying it
Returning(i) ==
    [threads EXCEPT ![i] =
        IF Len(threads[i].stack) = 1
        THEN [stack |-> <<>>, result |-> "returned"]
        ELSE [stack |-> SubSeq(threads[i].stack, 1, Len(threads[i].stack) - 1),
              result |-> "none"]]

\* a panic unwinds every call of thread i
Unwinding(i) == [threads EXCEPT ![i] = [stack |-> <<>>, result |-> "panicked"]]

\* a guard dropped while its thread panics poisons its mutex
Poisoning(i, S) ==
    [S EXCEPT !.execution_poisoned = S.execution_poisoned \/ mutexes.execution = i,
              !.binding_poisoned = S.binding_poisoned \/ mutexes.binding = i]

\* the mutexes once every guard of thread i has been dropped
Dropping(i) ==
    [binding |-> IF mutexes.binding = i THEN 0 ELSE mutexes.binding,
     execution |-> IF mutexes.execution = i THEN 0 ELSE mutexes.execution]

\* binding a command that applies the evaluator declares no variable
Reentrant_bind_statement(h, S, script, environment) ==
    IF script.s = "Reenter"
    THEN [result |-> Ok(script), S |-> S]
    ELSE StatefulEvalTool_bind_statement(h, S, script, environment)

\* self.binding.lock().unwrap() in bind_statement
LockBinding(i) ==
    /\ At(i, "bind")
    /\ mutexes.binding = 0
    /\ IF stateful.binding_poisoned
       THEN /\ threads' = Unwinding(i)
            /\ mutexes' = mutexes
       ELSE /\ threads' = Continue(i, [Top(i) EXCEPT !.pc = "binding"])
            /\ mutexes' = [mutexes EXCEPT !.binding = i]
    /\ last' = [op |-> "lock_binding", thread |-> i]
    /\ UNCHANGED <<heap, undefinedOnce, children, held, stateful, scopes>>

\* the rest of bind_statement; the guard is dropped when it returns, and a
\* script that did not bind ends the call
BindLocked(i) ==
    /\ At(i, "binding")
    /\ \E b \in {Reentrant_bind_statement(heap, stateful, Top(i).script,
                                          Top(i).environment)} :
        /\ stateful' = b.S
        /\ threads' = IF b.result.ok
                      THEN Continue(i, [pc |-> "evaluate", script |-> Top(i).script,
                                        environment |-> Top(i).environment,
                                        bound |-> b.result.val])
                      ELSE Returning(i)
    /\ mutexes' = [mutexes EXCEPT !.binding = 0]
    /\ last' = [op |-> "bind", thread |-> i]
    /\ UNCHANGED <<heap, undefinedOnce, children, held, scopes>>

\* self.execution.lock().unwrap() in evaluate_statement, the mutex free: the
\* guard lives until evaluate_statement returns; a poisoned mutex panics
LockExecution(i) ==
    /\ At(i, "evaluate")
    /\ mutexes.execution = 0
    /\ IF stateful.execution_poisoned
       THEN /\ threads' = Unwinding(i)
            /\ mutexes' = mutexes
       ELSE /\ threads' = Continue(i, [Top(i) EXCEPT !.pc = "evaluating"])
            /\ mutexes' = [mutexes EXCEPT !.execution = i]
    /\ last' = [op |-> "lock_execution", thread |-> i]
    /\ UNCHANGED <<heap, undefinedOnce, children, held, stateful, scopes>>

\* self.execution.lock() by the thread that holds the mutex already: the
\* standard library leaves open what happens, except that the call does not
\* return. It blocks for ever, or it panics and the thread unwinds.
RelockExecution(i) ==
    /\ At(i, "evaluate")
    /\ mutexes.execution = i
    /\ \/ /\ threads' = Continue(i, [Top(i) EXCEPT !.pc = "deadlocked"])
          /\ UNCHANGED <<stateful, mutexes>>
       \/ /\ threads' = Unwinding(i)
          /\ stateful' = Poisoning(i, stateful)
          /\ mutexes' = Dropping(i)
    /\ last' = [op |-> "relock_execution", thread |-> i]
    /\ UNCHANGED <<heap, undefinedOnce, children, held, scopes>>

\* evaluate_statement of a script that applies no evaluator, under the guard
EvaluateLocked(i) ==
    /\ At(i, "evaluating")
    /\ Top(i).script.s # "Reenter"
    /\ \E r \in {StatefulEvalTool_evaluate_statement(heap, stateful, Top(i).bound,
                                                     Top(i).environment)} :
        IF Panicked(r.result)
        THEN /\ threads' = Unwinding(i)
             /\ stateful' = Poisoning(i, r.S)
             /\ mutexes' = Dropping(i)
        ELSE /\ threads' = Returning(i)
             /\ stateful' = r.S
             /\ mutexes' = [mutexes EXCEPT !.execution =
                               IF Len(threads[i].stack) = 1 THEN 0 ELSE i]
    /\ last' = [op |-> "evaluate", thread |-> i]
    /\ UNCHANGED <<heap, undefinedOnce, children, held, scopes>>

\* apply -> call_tool -> invoke_json of the evaluator, under the guard: the
\* inner call gets a new dynamic environment
ApplyEvaluator(i) ==
    /\ At(i, "evaluating")
    /\ Top(i).script.s = "Reenter"
    /\ threads' = [threads EXCEPT ![i].stack =
                      Append(SubSeq(threads[i].stack, 1, Len(threads[i].stack) - 1)
                                \o <<[Top(i) EXCEPT !.pc = "applied"]>>,
                             Frame(Top(i).script.script, DynamicEnvironment("T")))]
    /\ last' = [op |-> "apply", thread |-> i]
    /\ UNCHANGED <<heap, undefinedOnce, children, held, stateful, scopes, mutexes>>

\* the evaluator applied has returned: evaluate_statement returns what it
\* returned and the guard is dropped
ReturnApplied(i) ==
    /\ At(i, "applied")
    /\ threads' = Returning(i)
    /\ mutexes' = [mutexes EXCEPT !.execution = 0]
    /\ last' = [op |-> "return", thread |-> i]
    /\ UNCHANGED <<heap, undefinedOnce, children, held, stateful, scopes>>

Call(i) ==
    \/ LockBinding(i)
    \/ BindLocked(i)
    \/ LockExecution(i)
    \/ RelockExecution(i)
    \/ EvaluateLocked(i)
    \/ ApplyEvaluator(i)
    \/ ReturnApplied(i)

NextReentrant == \E i \in Callers : Call(i)

\* every thread that can take a step is scheduled in the end
SpecReentrant ==
    InitReentrant /\ [][NextReentrant]_vars /\ \A i \in Callers : WF_vars(Call(i))

\* C29 (the stateful evaluator is deadlock-free): every invocation of the
\* stateful evaluator comes to an end (it returns, or at the least its thread
\* is not left waiting for ever), also when the script it evaluates applies
\* the same evaluator to a valid script.
C29_DeadlockFree == \A i \in Callers : <>(threads[i].result # "none")

\* C27 (listing agrees with lookup): in every state of a dynamic environment,
\* the meta-tool names redefined or undefined included, a name is in what
\* list_tools() returns exactly if get_json_tool of that name succeeds; the
\* same holds of the names the list-tools tool has just returned.
C27_ListingAgreesWithLookup ==
    /\ \A keys \in KeyOrders(DOMAIN heap["D"].tools) :
          \A listed \in {Range(list_tools(heap, "D", keys))} :
              \A name \in Range(NameOrder) :
                  name \in listed <=> get_json_tool(heap, D, name).ok
    /\ (last.op = "list-tools" /\ last.ret.ok) =>
          \A name \in Range(NameOrder) :
              name \in Range(last.ret.val.names) <=> get_json_tool(heap, D, name).ok

\* listed after a meta-tool name that had been undefined was defined again,
\* another one being undefined still
C27_Witness ==
    /\ last.op = "list-tools"
    /\ last.ret.ok
    /\ \E m \in MetaNames :
          /\ Suppressed(heap["D"], m)
          /\ m \in DOMAIN heap["D"].tools
          /\ m \in Range(last.ret.val.names)
    /\ \E m \in MetaNames :
          /\ Suppressed(heap["D"], m)
          /\ m \notin DOMAIN heap["D"].tools
          /\ m \notin Range(last.ret.val.names)
          /\ ~get_json_tool(heap, D, m).ok

\* the define-tool handle was invoked with a source the caller has
DefinedThroughHandle(input, caller, h, after, ret) ==
    (from_value("DefineToolInput", input).ok
        /\ get_json_tool(h, caller, input.source_name).ok) =>
        /\ ret.ok
        /\ get_json_tool(after, D, unwrap_or(input.target_name, input.source_name))
              = get_json_tool(h, caller, input.source_name)

\* C28 (meta-tool handles stay live): a define-tool, undefine-tool or
\* list-tools handle obtained from a dynamic environment and invoked when get
\* of its name fails in that environment still inserts into, removes from, or
\* lists the present contents of that environment.
C28_HandlesStayLive ==
    [][/\ (last'.op = "define-tool" /\ ~get_json_tool(heap, D, DEFINE_TOOL).ok) =>
             DefinedThroughHandle(last'.input, last'.caller, heap, heap', last'.ret)
       /\ (last'.op = "undefine-tool" /\ ~get_json_tool(heap, D, UNDEFINE_TOOL).ok) =>
             /\ last'.name \notin DOMAIN heap'["D"].tools
             /\ ~get_json_tool(heap', D, last'.name).ok
             /\ last'.ret = Ok(JBool(get_json_tool(heap, D, last'.name).ok))
       /\ (last'.op = "list-tools" /\ ~get_json_tool(heap, D, LIST_TOOLS).ok) =>
             /\ last'.ret.ok
             /\ Range(last'.ret.val.names)
                   = {name \in Range(NameOrder) : get_json_tool(heap, D, name).ok}
             /\ LIST_TOOLS \notin Range(last'.ret.val.names)
      ]_vars

\* the define-tool handle has defined `test`; get of define-tool fails
C28_Witness ==
    /\ last.op = "define-tool"
    /\ last.ret.ok
    /\ ~get_json_tool(heap, D, DEFINE_TOOL).ok
    /\ last.input.source_name = "test"
    /\ get_json_tool(heap, D, unwrap_or(last.input.target_name, "test")).ok

\* the list-tools handle has listed `test`; get of list-tools fails
C28_WitnessList ==
    /\ last.op = "list-tools"
    /\ last.ret.ok
    /\ ~get_json_tool(heap, D, LIST_TOOLS).ok
    /\ "test" \in Range(last.ret.val.names)

\* the undefine-tool handle has removed `test`; get of undefine-tool fails
C28_WitnessUndefine ==
    /\ last.op = "undefine-tool"
    /\ last.name = "test"
    /\ last.ret = Ok(JBool(TRUE))
    /\ ~get_json_tool(heap, D, UNDEFINE_TOOL).ok

(***************************************************************************)
(* One dynamic environment used by three threads at once: one imports a    *)
(* toolset, one defines or undefines a name, one looks at the environment  *)
(* with list_tools and get_json_tool. Every call of define, undefine,      *)
(* list_tools and get_json_tool locks the tool map for its own duration.   *)
(***************************************************************************)
\* the most tools a toolset that is imported has
MaxImport == 2

\* the names of the tools of the toolset, in the order create_tools gives them
ImportOrder == <<"test", "tool", "new-tool">>

Min2(a, b) == IF a <= b THEN a ELSE b

Toolsets ==
    {[i \in 1..n |-> [name |-> ImportOrder[i], tool |-> FnTool(1)]] :
        n \in 1..Min2(MaxImport, Len(ImportOrder))}

\* what the second thread calls
Mutations ==
    {[op |-> "define", name |-> n, tool |-> FnTool(2)] : n \in Range(ImportOrder)}
        \cup {[op |-> "undefine", name |-> n] : n \in Range(ImportOrder)}

InitImport ==
    /\ heap = InitHeap
    /\ undefinedOnce = {}
    /\ last = NoOp
    /\ children = <<>>
    /\ held = NoHandle
    /\ stateful = StatefulEvalTool_new
    /\ scopes = NoScopes
    /\ mutexes = NoMutexes
    /\ threads \in {[importer |-> [pc |-> "import", toolset |-> toolset, next |-> 1],
                     mutator |-> [pc |-> "call", call |-> mutation]] :
                        toolset \in Toolsets, mutation \in Mutations}

\* import: toolset.create_tools(self), before the loop
CreateTools ==
    /\ threads.importer.pc = "import"
    /\ threads' = [threads EXCEPT !.importer.pc = "define"]
    /\ last' = [op |-> "create_tools"]
    /\ UNCHANGED <<heap, undefinedOnce, children, held, stateful, scopes, mutexes>>

\* import: one turn of the loop, self.define(&name, tool), which locks the
\* map, inserts and unlocks
ImportDefine ==
    /\ threads.importer.pc = "define"
    /\ heap' = define(heap, "D", threads.importer.toolset[threads.importer.next].name,
                      threads.importer.toolset[threads.importer.next].tool)
    /\ threads' = [threads EXCEPT
                      !.importer.next = @ + 1,
                      !.importer.pc = IF threads.importer.next = Len(threads.importer.toolset)
                                      THEN "done" ELSE "define"]
    /\ last' = [op |-> "import_define"]
    /\ UNCHANGED <<undefinedOnce, children, held, stateful, scopes, mutexes>>

\* define called by the second thread
ConcurrentDefine ==
    /\ threads.mutator.pc = "call"
    /\ threads.mutator.call.op = "define"
    /\ heap' = define(heap, "D", threads.mutator.call.name, threads.mutator.call.tool)
    /\ threads' = [threads EXCEPT !.mutator.pc = "done"]
    /\ last' = [op |-> "define"]
    /\ UNCHANGED <<undefinedOnce, children, held, stateful, scopes, mutexes>>

\* undefine called by the second thread
ConcurrentUndefine ==
    /\ threads.mutator.pc = "call"
    /\ threads.mutator.call.op = "undefine"
    /\ heap' = undefine(heap, "D", threads.mutator.call.name).heap
    /\ threads' = [threads EXCEPT !.mutator.pc = "done"]
    /\ last' = [op |-> "undefine"]
    /\ UNCHANGED <<undefinedOnce, children, held, stateful, scopes, mutexes>>

\* list_tools called by the third thread
ObserveList ==
    /\ \E keys \in KeyOrders(DOMAIN heap["D"].tools) :
          last' = [op |-> "list_tools", names |-> list_tools(heap, "D", keys)]
    /\ UNCHANGED <<heap, undefinedOnce, children, held, stateful, threads, scopes, mutexes>>

\* get_json_tool called by the third thread
ObserveGet(name) ==
    /\ last' = [op |-> "get", name |-> name, ret |-> get_json_tool(heap, D, name)]
    /\ UNCHANGED <<heap, undefinedOnce, children, held, stateful, threads, scopes, mutexes>>

NextImport ==
    \/ CreateTools
    \/ ImportDefine
    \/ ConcurrentDefine
    \/ ConcurrentUndefine
    \/ ObserveList
    \/ \E name \in Range(ImportOrder) : ObserveGet(name)

SpecImport == InitImport /\ [][NextImport]_vars

\* import as one operation: every tool of the toolset defined, from tool i on
RECURSIVE Imported(_, _, _)
Imported(h, toolset, i) ==
    IF i > Len(toolset)
    THEN h
    ELSE Imported(define(h, "D", toolset[i].name, toolset[i].tool), toolset, i + 1)

\* the call of the second thread as one operation
Mutated(h, call) ==
    IF call.op = "define"
    THEN define(h, "D", call.name, call.tool)
    ELSE undefine(h, "D", call.name).heap

\* the environments that whole operations run one after the other lead to:
\* an operation that has returned is among them, the import is not before it
\* has begun, and the two come in either order
SerialHeaps ==
    {IF importFirst
     THEN (IF mutated THEN Mutated(IF imported
                                   THEN Imported(InitHeap, threads.importer.toolset, 1)
                                   ELSE InitHeap, threads.mutator.call)
                      ELSE IF imported
                           THEN Imported(InitHeap, threads.importer.toolset, 1)
                           ELSE InitHeap)
     ELSE (IF imported
           THEN Imported(IF mutated THEN Mutated(InitHeap, threads.mutator.call)
                                    ELSE InitHeap, threads.importer.toolset, 1)
           ELSE IF mutated THEN Mutated(InitHeap, threads.mutator.call) ELSE InitHeap) :
        importFirst \in BOOLEAN,
        imported \in CASE threads.importer.pc = "done" -> {TRUE}
                       [] threads.importer.pc = "define" -> {TRUE, FALSE}
                       [] OTHER -> {FALSE},
        mutated \in IF threads.mutator.pc = "done" THEN {TRUE} ELSE {TRUE, FALSE}}

\* the names an environment in state h lists
Listed(h) == DOMAIN h["D"].tools \cup {m \in MetaNames : ~Suppressed(h["D"], m)}

\* C24 (mutations of a dynamic environment serialise): define, undefine and
\* import issued concurrently are atomic: what a concurrent list_tools or
\* get_json_tool sees, and what the environment holds once the operations
\* have returned, is what whole operations run in some order lead to; an
\* import is never seen partly applied.
C24_MutationsSerialise ==
    /\ last.op = "list_tools" => \E h \in SerialHeaps : Range(last.names) = Listed(h)
    /\ last.op = "get" => \E h \in SerialHeaps : last.ret = get_json_tool(h, D, last.name)
    /\ (threads.importer.pc = "done" /\ threads.mutator.pc = "done") =>
          heap \in SerialHeaps

====
